---------------------------- MODULE Spec2Model ----------------------------
(***************************************************************************)
(* A model of the incremental streaming-SQL operator core of dozer-sql:   *)
(* the binary hash join (pipeline/product), the grouped aggregation       *)
(* processor (pipeline/aggregation) and the projection processor          *)
(* (pipeline/projection).                                                  *)
(*                                                                         *)
(* Three independent state machines share the module: Spec (the join      *)
(* operator over two leaf tables), AggSpec (the aggregation processor)    *)
(* and ProjSpec (the projection processor).  Each leaves the variables of *)
(* the other two untouched.                                                *)
(***************************************************************************)
EXTENDS Integers, Sequences, FiniteSets, TLC

VARIABLES
    \* ---- join operator (join_operator.rs, join_table.rs)
    jo,          \* the JoinOperator struct
    joPrev,      \* ghost: the JoinOperator before the last execute call
    liveL,       \* ghost: bag of records the left upstream currently holds
    liveR,       \* ghost: bag of records the right upstream currently holds
    out,         \* ghost: emitted tuples materialised, row -> net count
    emitted,     \* the Vec returned by the last execute call
    jres,        \* the Result of the last execute call
    jev,         \* the arguments of the last execute call
    jtrace,      \* ghost: the earlier calls, oldest first
    jlk,         \* the last lookup call, if it came after the last execute call
    steps,       \* number of calls made so far (bounded by MaxSteps)
    \* ---- aggregation processor (aggregation/processor.rs)
    agg,         \* the AggregationProcessor struct
    aggLive,     \* ghost: bag of input rows applied by successful calls
    aggOut,      \* ghost: operations returned by aggregate, materialised
    aggEmitted,  \* the Vec returned by the last aggregate call (empty on error)
    aggRet,      \* outcome of the last aggregate call
    aggSent,     \* sends made by the last process call, each with its outcome
    aggRes,      \* outcome of the last process call
    aggEv,       \* the Operation of the last process call
    aggValid,    \* ghost: the upstream kept its contract so far
    aggFailed,   \* ghost: some aggregate call has returned an error
    aggPrev,     \* ghost: the group table before the last process call
    aggCommit,   \* ghost: what the commit calls made so far did
    \* ---- projection processor (projection/processor.rs)
    proj,        \* the ProjectionProcessor struct
    projSent,    \* operations handed to fw.send during the last process call
    projRes,     \* outcome of the last process call
    projEv,      \* the Operation of the last process call
    projCommit   \* ghost: what the commit calls made so far did

joinVars == <<jo, joPrev, liveL, liveR, out, emitted, jres, jev, jtrace, jlk>>
aggVars  == <<agg, aggLive, aggOut, aggEmitted, aggRet, aggSent, aggRes, aggEv,
             aggValid, aggFailed, aggPrev, aggCommit>>
projVars == <<proj, projSent, projRes, projEv, projCommit>>
vars     == <<joinVars, aggVars, projVars, steps>>

(***************************************************************************)
(* Bounds of the model.                                                    *)
(***************************************************************************)
MaxSteps  == 4      \* calls per behaviour
NumIds    == 3      \* distinct join records per side
NumKeys   == 2      \* distinct join-key values
MaxCopies == 2      \* live copies of one identical record
NumDims   == 2      \* distinct values of the grouping column a
MaxVal    == 2      \* largest non-null value of the measured column b
MaxEpoch  == 2      \* largest epoch id handed to commit

(***************************************************************************)
(* Fields, records, hashing.                                               *)
(***************************************************************************)
\* Field::Null, as produced by Record::from_schema for a missing outer side.
Null == 0

Ok(v)  == [ok |-> TRUE, val |-> v]
Err(e) == [ok |-> FALSE, err |-> e]

\* Option<T>
None    == <<"None">>
Some(x) == <<"Some", x>>

\* AHasher::default() over a Vec<Field>: deterministic and, as the properties
\* assume, collision-free.  Modelled as a positional encoding of the fields,
\* which is injective on the field sequences the model uses.
HashBase == NumIds + NumKeys + 3

RECURSIVE HashFrom(_, _)
HashFrom(h, fields) ==
    IF fields = <<>> THEN h
    ELSE HashFrom(h * HashBase + Head(fields) + 1, Tail(fields))

Hash64(fields) == HashFrom(1, fields)

\* Record::get_fields_by_indexes
get_fields_by_indexes(record, idxs) == [i \in 1..Len(idxs) |-> record[idxs[i]]]

\* Record::from_schema: one null field per column of the schema
from_schema(ncols) == [i \in 1..ncols |-> Null]

(***************************************************************************)
(* multimap::MultiMap<K, V>: a map from keys to non-empty vectors.         *)
(***************************************************************************)
EmptyMap == [k \in {} |-> <<>>]

\* MultiMap::insert: push the value onto the key's vector
MMInsert(m, k, v) ==
    IF k \in DOMAIN m
    THEN [m EXCEPT ![k] = Append(@, v)]
    ELSE [x \in DOMAIN m \cup {k} |-> IF x = k THEN <<v>> ELSE m[x]]

\* MultiMap::remove: removes the key with its whole vector of values
MMRemove(m, k) == [x \in DOMAIN m \ {k} |-> m[x]]

\* MultiMap::get_vec(..).unwrap_or(&vec![])
GetVecOrEmpty(m, k) == IF k \in DOMAIN m THEN m[k] ELSE <<>>

\* number of values held by the map, over all keys
RECURSIVE SumLen(_, _)
SumLen(m, ks) ==
    IF ks = {} THEN 0
    ELSE LET k == CHOOSE x \in ks : TRUE IN Len(m[k]) + SumLen(m, ks \ {k})

MMSize(m) == SumLen(m, DOMAIN m)

(***************************************************************************)
(* Bags (ghost state): functions from elements to non-zero integer counts. *)
(***************************************************************************)
EmptyBag == [x \in {} |-> 0]

BagCount(b, x) == IF x \in DOMAIN b THEN b[x] ELSE 0

BagAdd(b, x, d) ==
    LET c == BagCount(b, x) + d IN
    IF c = 0 THEN [y \in DOMAIN b \ {x} |-> b[y]]
    ELSE [y \in DOMAIN b \cup {x} |-> IF y = x THEN c ELSE b[y]]

(***************************************************************************)
(* Join: lookup keys, ports, schemas.                                      *)
(***************************************************************************)
\* JoinLookupKey::Lookup(LookupKey(h)) and JoinLookupKey::Composite{left, right}
Lookup(h) == <<"Lookup", h>>
Composite(l, r) == <<"Composite", l, r>>

\* JoinOperator::compose_join_lookup_key
compose_join_lookup_key(left_lookup_key, right_lookup_key) ==
    Composite(left_lookup_key, right_lookup_key)

\* join_records: left values ++ right values
join_records(left_record, right_record) == left_record \o right_record

\* The join under study: left schema {l, k}, right schema {k, r}, joined on k.
LeftPort  == "left"
RightPort == "right"
OtherPort == "other"
Ports == {LeftPort, RightPort, OtherPort}

left_join_key_indexes  == <<2>>
right_join_key_indexes == <<1>>
LeftCols  == Len(<<"l", "k">>)
RightCols == Len(<<"k", "r">>)

\* The records the upstreams may send: record number n carries join key
\* KeyOf(n), so records 1 and NumKeys + 1 of a side share a join key.
KeyOf(n) == ((n - 1) % NumKeys) + 1
LeftRecords  == {<<l, KeyOf(l)>> : l \in 1..NumIds}
RightRecords == {<<KeyOf(r), r>> : r \in 1..NumIds}

JoinOperatorType == {"Inner", "LeftOuter", "RightOuter"}
JoinAction == {"Insert", "Delete"}

(***************************************************************************)
(* JoinTable (leaf).                                                       *)
(***************************************************************************)
\* JoinTable::new
JoinTable_new(port) == [port |-> port, record_store |-> EmptyMap]

\* C23, a faulty leaf: the record store is left as it is
JoinTable_execute_forgetting(table, action, from_port, record) ==
    [table |-> table,
     res   |-> Ok(<< <<action, record, Lookup(Hash64(record))>> >>)]

\* JoinTable::execute: returns the table after the call and the returned Vec
JoinTable_execute(table, action, from_port, record) ==
    LET lookup_key == Hash64(record)
        store == IF action = "Insert"
                 THEN MMInsert(table.record_store, lookup_key, record)
                 ELSE MMRemove(table.record_store, lookup_key)
    IN [table |-> [table EXCEPT !.record_store = store],
        res   |-> Ok(<< <<action, record, Lookup(lookup_key)>> >>)]

\* C25, a faulty lookup: only the first record stored under the key is returned
JoinTable_lookup_first(table, join_lookup_key) ==
    IF join_lookup_key[1] # "Lookup"
    THEN Err(<<"InvalidLookupKey", join_lookup_key, table.port>>)
    ELSE IF join_lookup_key[2] \in DOMAIN table.record_store
    THEN Ok(<<table.record_store[join_lookup_key[2]][1]>>)
    ELSE Err(<<"HistoryRecordNotFound", join_lookup_key[2], table.port>>)

\* JoinTable::lookup
JoinTable_lookup(table, join_lookup_key) ==
    IF join_lookup_key[1] # "Lookup"
    THEN Err(<<"InvalidLookupKey", join_lookup_key, table.port>>)
    ELSE LET lookup_key == join_lookup_key[2] IN
         IF lookup_key \in DOMAIN table.record_store
         THEN Ok(table.record_store[lookup_key])
         ELSE Err(<<"HistoryRecordNotFound", lookup_key, table.port>>)

(***************************************************************************)
(* JoinOperator.                                                           *)
(***************************************************************************)
\* JoinOperator::new over two leaf tables
JoinOperator_new(operator) ==
    [operator               |-> operator,
     left_source            |-> JoinTable_new(LeftPort),
     right_source           |-> JoinTable_new(RightPort),
     left_lookup_index_map  |-> EmptyMap,
     right_lookup_index_map |-> EmptyMap]

\* C15, a faulty index update: a Delete leaves the index as it is
update_left_index_keeping(j, action, key, value) ==
    IF action = "Insert"
    THEN [j EXCEPT !.left_lookup_index_map = MMInsert(@, key, value)]
    ELSE j

\* C33, a faulty index update: an Insert leaves the left index as it is
update_left_index_skipping(j, action, key, value) ==
    IF action = "Insert"
    THEN j
    ELSE [j EXCEPT !.left_lookup_index_map = MMRemove(@, key)]

\* JoinOperator::update_left_index
update_left_index(j, action, key, value) ==
    IF action = "Insert"
    THEN [j EXCEPT !.left_lookup_index_map = MMInsert(@, key, value)]
    ELSE [j EXCEPT !.left_lookup_index_map = MMRemove(@, key)]

\* C32, a faulty index update: a Delete leaves the right index as it is
update_right_index_keeping(j, action, key, value) ==
    IF action = "Insert"
    THEN [j EXCEPT !.right_lookup_index_map = MMInsert(@, key, value)]
    ELSE j

\* JoinOperator::update_right_index
update_right_index(j, action, key, value) ==
    IF action = "Insert"
    THEN [j EXCEPT !.right_lookup_index_map = MMInsert(@, key, value)]
    ELSE [j EXCEPT !.right_lookup_index_map = MMRemove(@, key)]

\* C27, a faulty count: the size of the bucket after the event
get_matching_count_after(index, action, join_key) ==
    Ok(Len(GetVecOrEmpty(index, join_key)))

\* usize subtraction `records_count -= 1`: an underflow panics (debug build)
\* or wraps (release build); either way it is reported as an overflow.
get_matching_count(index, action, join_key) ==
    LET records_count == Len(GetVecOrEmpty(index, join_key)) IN
    IF action = "Insert"
    THEN IF records_count = 0 THEN Err(<<"UsizeUnderflow">>)
         ELSE Ok(records_count - 1)
    ELSE Ok(records_count)

\* JoinOperator::get_right_matching_count
get_right_matching_count(j, action, left_record) ==
    get_matching_count(j.right_lookup_index_map, action,
                       Hash64(get_fields_by_indexes(left_record, left_join_key_indexes)))

\* JoinOperator::get_left_matching_count
get_left_matching_count(j, action, right_record) ==
    get_matching_count(j.left_lookup_index_map, action,
                       Hash64(get_fields_by_indexes(right_record, right_join_key_indexes)))

\* concatenation of the per-item results of a loop whose body may fail with `?`:
\* the first failing item aborts the loop
RECURSIVE Collect(_)
Collect(parts) ==
    IF parts = <<>> THEN Ok(<<>>)
    ELSE IF ~Head(parts).ok THEN Head(parts)
    ELSE LET rest == Collect(Tail(parts)) IN
         IF ~rest.ok THEN rest ELSE Ok(Head(parts).val \o rest.val)

\* JoinOperator::inner_join_left
inner_join_left(j, action, left_join_key, left_record, left_lookup_key) ==
    LET right_lookup_keys == GetVecOrEmpty(j.right_lookup_index_map, left_join_key)
        body(right_lookup_key) ==
            LET right_records == JoinTable_lookup(j.right_source, right_lookup_key) IN
            IF ~right_records.ok THEN right_records
            ELSE Ok([n \in 1..Len(right_records.val) |->
                       <<action,
                         join_records(left_record, right_records.val[n]),
                         compose_join_lookup_key(Some(left_lookup_key), Some(right_lookup_key))>>])
    IN Collect([i \in 1..Len(right_lookup_keys) |-> body(right_lookup_keys[i])])

\* JoinOperator::inner_join_right
inner_join_right(j, action, right_join_key, right_record, right_lookup_key) ==
    LET left_lookup_keys == GetVecOrEmpty(j.left_lookup_index_map, right_join_key)
        body(left_lookup_key) ==
            LET left_records == JoinTable_lookup(j.left_source, left_lookup_key) IN
            IF ~left_records.ok THEN left_records
            ELSE Ok([n \in 1..Len(left_records.val) |->
                       <<action,
                         join_records(left_records.val[n], right_record),
                         compose_join_lookup_key(Some(left_lookup_key), Some(right_lookup_key))>>])
    IN Collect([i \in 1..Len(left_lookup_keys) |-> body(left_lookup_keys[i])])

\* JoinOperator::left_join
left_join(j, action, left_join_key, left_record, left_lookup_key) ==
    LET right_lookup_keys == GetVecOrEmpty(j.right_lookup_index_map, left_join_key) IN
    IF right_lookup_keys = <<>>
    THEN Ok(<< <<action,
                 join_records(left_record, from_schema(RightCols)),
                 compose_join_lookup_key(Some(left_lookup_key), None)>> >>)
    ELSE inner_join_left(j, action, left_join_key, left_record, left_lookup_key)

\* JoinOperator::right_join
right_join(j, action, right_join_key, right_record, right_lookup_key) ==
    LET left_lookup_keys == GetVecOrEmpty(j.left_lookup_index_map, right_join_key) IN
    IF left_lookup_keys = <<>>
    THEN Ok(<< <<action,
                 join_records(from_schema(LeftCols), right_record),
                 compose_join_lookup_key(None, Some(right_lookup_key))>> >>)
    ELSE inner_join_right(j, action, right_join_key, right_record, right_lookup_key)

\* JoinOperator::right_join_reverse
right_join_reverse(j, action, left_join_key, left_record, left_lookup_key) ==
    LET right_lookup_keys == GetVecOrEmpty(j.right_lookup_index_map, left_join_key)
        row(right_lookup_key, right_record) ==
            LET left_matching_count == get_left_matching_count(j, action, right_record)
                join_record == join_records(left_record, right_record)
                join_lookup_key ==
                    compose_join_lookup_key(Some(left_lookup_key), Some(right_lookup_key))
                null_join_record == join_records(from_schema(LeftCols), right_record)
                null_join_lookup_key == compose_join_lookup_key(Some(left_lookup_key), None)
            IN IF ~left_matching_count.ok THEN left_matching_count
               ELSE IF left_matching_count.val > 0
               THEN Ok(<< <<action, join_record, join_lookup_key>> >>)
               ELSE IF action = "Insert"
               THEN Ok(<< <<"Delete", null_join_record, null_join_lookup_key>>,
                          <<"Insert", join_record, join_lookup_key>> >>)
               ELSE Ok(<< <<"Delete", join_record, join_lookup_key>>,
                          <<"Insert", null_join_record, null_join_lookup_key>> >>)
        body(right_lookup_key) ==
            LET right_records == JoinTable_lookup(j.right_source, right_lookup_key) IN
            IF ~right_records.ok THEN right_records
            ELSE Collect([n \in 1..Len(right_records.val) |->
                            row(right_lookup_key, right_records.val[n])])
    IN Collect([i \in 1..Len(right_lookup_keys) |-> body(right_lookup_keys[i])])

\* JoinOperator::left_join_reverse
left_join_reverse(j, action, right_join_key, right_record, right_lookup_key) ==
    LET left_lookup_keys == GetVecOrEmpty(j.left_lookup_index_map, right_join_key)
        row(left_lookup_key, left_record) ==
            LET right_matching_count == get_right_matching_count(j, action, left_record)
                join_record == join_records(left_record, right_record)
                join_lookup_key ==
                    compose_join_lookup_key(Some(left_lookup_key), Some(right_lookup_key))
                null_join_record == join_records(left_record, from_schema(RightCols))
                null_join_lookup_key == compose_join_lookup_key(Some(left_lookup_key), None)
            IN IF ~right_matching_count.ok THEN right_matching_count
               ELSE IF right_matching_count.val > 0
               THEN Ok(<< <<action, join_record, join_lookup_key>> >>)
               ELSE IF action = "Insert"
               THEN Ok(<< <<"Delete", null_join_record, null_join_lookup_key>>,
                          <<action, join_record, join_lookup_key>> >>)
               ELSE Ok(<< <<action, join_record, join_lookup_key>>,
                          <<"Insert", null_join_record, null_join_lookup_key>> >>)
        body(left_lookup_key) ==
            LET left_records == JoinTable_lookup(j.left_source, left_lookup_key) IN
            IF ~left_records.ok THEN left_records
            ELSE Collect([n \in 1..Len(left_records.val) |->
                            row(left_lookup_key, left_records.val[n])])
    IN Collect([i \in 1..Len(left_lookup_keys) |-> body(left_lookup_keys[i])])

\* JoinOperator::execute, left branch (from_port is a source of left_source).
\* A leaf returns exactly one tuple, so the loop over left_records runs once.
execute_left(j, action, from_port, record) ==
    LET src == JoinTable_execute(j.left_source, action, from_port, record)
        t == src.res.val[1]
        left_record == t[2]
        left_lookup_key == t[3]
        left_join_key == Hash64(get_fields_by_indexes(left_record, left_join_key_indexes))
        j1 == update_left_index([j EXCEPT !.left_source = src.table],
                                t[1], left_join_key, left_lookup_key)
        join_result ==
            CASE j.operator = "Inner" ->
                   inner_join_left(j1, t[1], left_join_key, left_record, left_lookup_key)
              [] j.operator = "LeftOuter" ->
                   left_join(j1, t[1], left_join_key, left_record, left_lookup_key)
              [] j.operator = "RightOuter" ->
                   right_join_reverse(j1, t[1], left_join_key, left_record, left_lookup_key)
    IN [j |-> j1, res |-> join_result]

\* JoinOperator::execute, right branch (from_port is a source of right_source)
execute_right(j, action, from_port, record) ==
    LET src == JoinTable_execute(j.right_source, action, from_port, record)
        t == src.res.val[1]
        right_record == t[2]
        right_lookup_key == t[3]
        right_join_key == Hash64(get_fields_by_indexes(right_record, right_join_key_indexes))
        j1 == update_right_index([j EXCEPT !.right_source = src.table],
                                 t[1], right_join_key, right_lookup_key)
        join_result ==
            CASE j.operator = "Inner" ->
                   inner_join_right(j1, t[1], right_join_key, right_record, right_lookup_key)
              [] j.operator = "RightOuter" ->
                   right_join(j1, t[1], right_join_key, right_record, right_lookup_key)
              [] j.operator = "LeftOuter" ->
                   left_join_reverse(j1, t[1], right_join_key, right_record, right_lookup_key)
    IN [j |-> j1, res |-> join_result]

\* JoinSource::get_sources of the two leaves
left_sources(j)  == {j.left_source.port}
right_sources(j) == {j.right_source.port}

\* C24, a faulty routing: the right subtree is asked first
JoinOperator_execute_right_first(j, action, from_port, record) ==
    IF from_port \in right_sources(j) THEN execute_right(j, action, from_port, record)
    ELSE IF from_port \in left_sources(j) THEN execute_left(j, action, from_port, record)
    ELSE [j |-> j, res |-> Err(<<"InvalidSource", from_port>>)]

\* JoinOperator::execute: the operator after the call and the call's Result
JoinOperator_execute(j, action, from_port, record) ==
    IF from_port \in left_sources(j) THEN execute_left(j, action, from_port, record)
    ELSE IF from_port \in right_sources(j) THEN execute_right(j, action, from_port, record)
    ELSE [j |-> j, res |-> Err(<<"InvalidSource", from_port>>)]

\* JoinOperator::split_join_lookup_key
split_join_lookup_key(join_lookup_key) ==
    IF join_lookup_key[1] = "Lookup"
    THEN Err(<<"InvalidJoinKey", join_lookup_key>>)
    ELSE Ok(<<join_lookup_key[2], join_lookup_key[3]>>)

\* JoinSource::lookup of a leaf, as JoinOperator::lookup calls it: the side of
\* the split key is handed to the leaf, and a leaf accepts only a Lookup key,
\* so that a side without a key is refused
JoinSource_lookup(table, side_key) ==
    IF side_key = None
    THEN Err(<<"InvalidLookupKey", side_key, table.port>>)
    ELSE JoinTable_lookup(table, side_key[2])

\* JoinOperator::lookup: every left record with every right record, each
\* pair with the composite of the two sides of the key
JoinOperator_lookup(j, lookup_key) ==
    LET split == split_join_lookup_key(lookup_key) IN
    IF ~split.ok THEN split
    ELSE LET left_records == JoinSource_lookup(j.left_source, split.val[1]) IN
         IF ~left_records.ok THEN left_records
         ELSE LET right_records == JoinSource_lookup(j.right_source, split.val[2]) IN
              IF ~right_records.ok THEN right_records
              ELSE Ok([n \in 1..(Len(left_records.val) * Len(right_records.val)) |->
                        <<join_records(
                              left_records.val[((n - 1) \div Len(right_records.val)) + 1],
                              right_records.val[((n - 1) % Len(right_records.val)) + 1]),
                          compose_join_lookup_key(split.val[1], split.val[2])>>])

(***************************************************************************)
(* Ghost bookkeeping of the join: what downstream has materialised, and    *)
(* what SQL says it should hold.                                           *)
(***************************************************************************)
\* apply the emitted tuples in order: (Insert,row) is +1, (Delete,row) is -1
RECURSIVE Materialize(_, _)
Materialize(bag, tuples) ==
    IF tuples = <<>> THEN bag
    ELSE Materialize(BagAdd(bag, Head(tuples)[2],
                            IF Head(tuples)[1] = "Insert" THEN 1 ELSE -1),
                     Tail(tuples))

LeftKey(l)  == get_fields_by_indexes(l, left_join_key_indexes)
RightKey(r) == get_fields_by_indexes(r, right_join_key_indexes)

Matches(l, r) == LeftKey(l) = RightKey(r)

\* the SQL join of the two bags of live records, as a bag of rows
SqlJoin(operator, L, R) ==
    LET inner == {join_records(l, r) : <<l, r>> \in
                     {p \in (DOMAIN L) \X (DOMAIN R) : Matches(p[1], p[2])}}
        lonely_left  == {l \in DOMAIN L : \A r \in DOMAIN R : ~Matches(l, r)}
        lonely_right == {r \in DOMAIN R : \A l \in DOMAIN L : ~Matches(l, r)}
        left_pad  == IF operator = "LeftOuter"
                     THEN {join_records(l, from_schema(RightCols)) : l \in lonely_left}
                     ELSE {}
        right_pad == IF operator = "RightOuter"
                     THEN {join_records(from_schema(LeftCols), r) : r \in lonely_right}
                     ELSE {}
        LeftOf(row)  == SubSeq(row, 1, LeftCols)
        RightOf(row) == SubSeq(row, LeftCols + 1, LeftCols + RightCols)
    IN [row \in inner \cup left_pad \cup right_pad |->
          IF row \in inner THEN L[LeftOf(row)] * R[RightOf(row)]
          ELSE IF row \in left_pad THEN L[LeftOf(row)]
          ELSE R[RightOf(row)]]

(***************************************************************************)
(* The join state machine.                                                 *)
(***************************************************************************)
NoEvent == <<"none">>

\* the join variables after construction of a join of the given type
JoinStart(operator) ==
    /\ jo = JoinOperator_new(operator)
    /\ joPrev = JoinOperator_new(operator)
    /\ liveL = EmptyBag
    /\ liveR = EmptyBag
    /\ out = EmptyBag
    /\ emitted = <<>>
    /\ jres = "none"
    /\ jev = NoEvent
    /\ jtrace = <<>>
    /\ jlk = NoEvent

\* one execute call, with its effect on the ghost state
JoinCall(action, port, record) ==
    /\ steps < MaxSteps
    /\ \E r \in {JoinOperator_execute(jo, action, port, record)} :
       /\ steps' = steps + 1
       /\ jo' = r.j
       /\ joPrev' = jo
       /\ emitted' = IF r.res.ok THEN r.res.val ELSE <<>>
       /\ jres' = IF r.res.ok THEN "ok" ELSE r.res.err[1]
       /\ jev' = <<action, port, record>>
       /\ jlk' = NoEvent
       /\ jtrace' = IF jev = NoEvent THEN jtrace
                    ELSE Append(jtrace, [ev |-> jev, res |-> jres, emitted |-> emitted,
                                         out |-> out, liveL |-> liveL, liveR |-> liveR])
       /\ out' = IF r.res.ok THEN Materialize(out, r.res.val) ELSE out
       /\ liveL' = IF port = LeftPort
                   THEN BagAdd(liveL, record, IF action = "Insert" THEN 1 ELSE -1)
                   ELSE liveL
       /\ liveR' = IF port = RightPort
                   THEN BagAdd(liveR, record, IF action = "Insert" THEN 1 ELSE -1)
                   ELSE liveR
       /\ UNCHANGED <<aggVars, projVars>>

\* execute(Insert, left port, record)
InsertLeft ==
    \E record \in LeftRecords :
        /\ BagCount(liveL, record) < MaxCopies
        /\ JoinCall("Insert", LeftPort, record)

\* execute(Delete, left port, record) of a record the upstream holds
DeleteLeft ==
    \E record \in DOMAIN liveL : JoinCall("Delete", LeftPort, record)

\* execute(Insert, right port, record)
InsertRight ==
    \E record \in RightRecords :
        /\ BagCount(liveR, record) < MaxCopies
        /\ JoinCall("Insert", RightPort, record)

\* execute(Delete, right port, record) of a record the upstream holds
DeleteRight ==
    \E record \in DOMAIN liveR : JoinCall("Delete", RightPort, record)

\* execute on a port that belongs to neither subtree
ExecuteOtherPort ==
    \E action \in JoinAction :
        /\ JoinCall(action, OtherPort, CHOOSE record \in LeftRecords : TRUE)

\* one lookup call: it reads the operator and returns
LookupCall(on, key, res) ==
    /\ steps < MaxSteps
    /\ steps' = steps + 1
    /\ jlk' = <<on, key, res>>
    /\ UNCHANGED <<jo, joPrev, liveL, liveR, out, emitted, jres, jev, jtrace>>
    /\ UNCHANGED <<aggVars, projVars>>

\* the keys a leaf is asked for: the content hashes of the records its
\* upstream may send, and a composite key
LeafKeys(port) ==
    {Lookup(Hash64(r)) : r \in IF port = LeftPort THEN LeftRecords ELSE RightRecords}
        \cup {Composite(None, None)}

\* JoinTable::lookup on the left or the right leaf
LookupLeaf ==
    \E port \in {LeftPort, RightPort} : \E key \in LeafKeys(port) :
        LookupCall(port, key,
                   JoinTable_lookup(IF port = LeftPort THEN jo.left_source
                                    ELSE jo.right_source, key))

\* JoinOperator::lookup with the key of a tuple the last execute call
\* returned, or with a leaf key
LookupJoin ==
    \E key \in {emitted[n][3] : n \in DOMAIN emitted}
                 \cup {Lookup(Hash64(CHOOSE r \in LeftRecords : TRUE))} :
        LookupCall("join", key, JoinOperator_lookup(jo, key))

JoinNext ==
    \/ InsertLeft
    \/ DeleteLeft
    \/ InsertRight
    \/ DeleteRight
    \/ ExecuteOtherPort
    \/ LookupLeaf
    \/ LookupJoin

(***************************************************************************)
(* Join: derived notions used by the properties.                           *)
(***************************************************************************)
\* every call made so far, oldest first, each with the ghost state after it
JoinCalls ==
    IF jev = NoEvent THEN <<>>
    ELSE Append(jtrace, [ev |-> jev, res |-> jres, emitted |-> emitted,
                         out |-> out, liveL |-> liveL, liveR |-> liveR])

\* no upstream ever held two identical copies of a record
NoDuplicatesEver ==
    \A i \in 1..Len(JoinCalls) :
        /\ \A l \in DOMAIN JoinCalls[i].liveL : JoinCalls[i].liveL[l] = 1
        /\ \A r \in DOMAIN JoinCalls[i].liveR : JoinCalls[i].liveR[r] = 1

\* every call so far returned Ok
AllJoinCallsOk == \A i \in 1..Len(JoinCalls) : JoinCalls[i].res = "ok"

\* the (action, row) pairs of a Vec of emitted tuples
ActRows(tuples) == [i \in 1..Len(tuples) |-> <<tuples[i][1], tuples[i][2]>>]

LeftPart(row)  == SubSeq(row, 1, LeftCols)
RightPart(row) == SubSeq(row, LeftCols + 1, LeftCols + RightCols)

\* the emitted pairs whose row carries left record l / right record r
PairsOfLeft(tuples, l) ==
    LET keep(t) == LeftPart(t[2]) = l IN SelectSeq(ActRows(tuples), keep)
PairsOfRight(tuples, r) ==
    LET keep(t) == RightPart(t[2]) = r IN SelectSeq(ActRows(tuples), keep)

\* sub occurs in s as a block of adjacent elements
Contiguous(sub, s) ==
    \E i \in 0..(Len(s) - Len(sub)) : SubSeq(s, i + 1, i + Len(sub)) = sub

\* number of live records of a bag with the given join key
LiveLeftWithKey(L, key)  ==
    LET S == {l \in DOMAIN L : LeftKey(l) = key}
        RECURSIVE sum(_)
        sum(T) == IF T = {} THEN 0
                  ELSE LET x == CHOOSE y \in T : TRUE IN L[x] + sum(T \ {x})
    IN sum(S)
LiveRightWithKey(R, key) ==
    LET S == {r \in DOMAIN R : RightKey(r) = key}
        RECURSIVE sum(_)
        sum(T) == IF T = {} THEN 0
                  ELSE LET x == CHOOSE y \in T : TRUE IN R[x] + sum(T \ {x})
    IN sum(S)

(***************************************************************************)
(* Properties of the join.                                                 *)
(***************************************************************************)
\* C1 (join equivalence): after any valid sequence of execute calls on the
\* two leaf ports, the materialised output (every emitted Insert as +1,
\* every emitted Delete as -1) equals the SQL join, of the operator's type,
\* of the live left records with the live right records.  Stated on the
\* sequences in which no record is ever held twice, where live records may
\* still share a join key.
C1_JoinEquivalence ==
    (NoDuplicatesEver /\ AllJoinCallsOk)
        => out = SqlJoin(jo.operator, liveL, liveR)

\* the tuples C3 expects for one preserved-side record when a record of the
\* other side arrives: `others` is the number of other live records of the
\* arriving side that carry the same join key
CompensationPairs(action, others, join_row, null_row) ==
    IF others > 0 THEN << <<action, join_row>> >>
    ELSE IF action = "Insert"
    THEN << <<"Delete", null_row>>, <<"Insert", join_row>> >>
    ELSE << <<"Delete", join_row>>, <<"Insert", null_row>> >>

\* C3 (outer-join zero-crossing compensation): in a LeftOuter join, a right
\* Insert that gives a live left record L its first match emits
\* Delete(L ++ nulls) immediately followed by Insert(L ++ R), a right Delete
\* that removes L's last match emits Delete(L ++ R) immediately followed by
\* Insert(L ++ nulls), and while L has another live matching right record
\* only (action, L ++ R) is emitted for L.  RightOuter with left arrivals is
\* the mirror, with the placeholder nulls ++ R.
C3_ZeroCrossing ==
    (NoDuplicatesEver /\ jev # NoEvent /\ jres = "ok") =>
      LET action == jev[1]
          record == jev[3]
      IN /\ (jo.operator = "LeftOuter" /\ jev[2] = RightPort) =>
              \A L \in DOMAIN liveL : Matches(L, record) =>
                 LET others == LiveRightWithKey(liveR, RightKey(record))
                                 - (IF action = "Insert" THEN 1 ELSE 0)
                     want == CompensationPairs(action, others,
                                join_records(L, record),
                                join_records(L, from_schema(RightCols)))
                 IN /\ PairsOfLeft(emitted, L) = want
                    /\ Contiguous(want, ActRows(emitted))
         /\ (jo.operator = "RightOuter" /\ jev[2] = LeftPort) =>
              \A R \in DOMAIN liveR : Matches(record, R) =>
                 LET others == LiveLeftWithKey(liveL, LeftKey(record))
                                 - (IF action = "Insert" THEN 1 ELSE 0)
                     want == CompensationPairs(action, others,
                                join_records(record, R),
                                join_records(from_schema(LeftCols), R))
                 IN /\ PairsOfRight(emitted, R) = want
                    /\ Contiguous(want, ActRows(emitted))

\* C4 (index/store lock-step): after every completed execute call the left
\* lookup index holds as many entries as the left leaf's record store holds
\* records, and likewise on the right.
C4_IndexStoreLockStep ==
    /\ MMSize(jo.left_lookup_index_map) = MMSize(jo.left_source.record_store)
    /\ MMSize(jo.right_lookup_index_map) = MMSize(jo.right_source.record_store)

\* C7 (insert/delete round-trip): execute(Insert, r) immediately followed by
\* execute(Delete, r) on the same port, for a record r that was not live on
\* its side before the Insert, leaves the materialised output as it was
\* before the Insert.
C7_InsertDeleteRoundTrip ==
    (/\ jtrace # <<>>
     /\ jev[1] = "Delete" /\ jev[2] \in {LeftPort, RightPort}
     /\ jtrace[Len(jtrace)].ev = <<"Insert", jev[2], jev[3]>>
     /\ jres = "ok" /\ jtrace[Len(jtrace)].res = "ok"
     /\ BagCount(IF jev[2] = LeftPort THEN liveL ELSE liveR, jev[3]) = 0)
    => out = (IF Len(jtrace) >= 2 THEN jtrace[Len(jtrace) - 1].out ELSE EmptyBag)

(***************************************************************************)
(* Expressions and operations (aggregation and projection).                *)
(***************************************************************************)
\* Expression: a column reference or the sum of two columns
Column(i) == <<"Column", i>>
Add(i, j) == <<"Add", i, j>>

\* ExpressionExecutor::evaluate(record, schema) -> Result<Field, _>: a column
\* reference fails on an index outside the record, an addition also fails on
\* a null operand
Evaluate(expr, values) ==
    IF expr[1] = "Column"
    THEN IF expr[2] \in 1..Len(values) THEN Ok(values[expr[2]])
         ELSE Err(<<"InvalidFieldIndex", expr[2]>>)
    ELSE IF ~(expr[2] \in 1..Len(values) /\ expr[3] \in 1..Len(values))
         THEN Err(<<"InvalidFieldIndex", expr[2]>>)
    ELSE IF values[expr[2]] = Null \/ values[expr[3]] = Null
         THEN Err(<<"InvalidOperandType">>)
    ELSE Ok(values[expr[2]] + values[expr[3]])

\* the `?` of a loop that collects results: the first error, or else the
\* values in order
first_err_or_all(results) ==
    IF \E i \in DOMAIN results : ~results[i].ok
    THEN results[CHOOSE i \in DOMAIN results :
                    ~results[i].ok /\ \A n \in 1..(i - 1) : results[n].ok]
    ELSE Ok([i \in DOMAIN results |-> results[i].val])

\* `for e in exprs { out.push(e.evaluate(record, schema)?) }`
EvaluateAll(exprs, values) ==
    first_err_or_all([i \in 1..Len(exprs) |-> Evaluate(exprs[i], values)])

\* Operation::Insert{new}, Operation::Delete{old}, Operation::Update{old, new}
OpInsert(new)      == <<"Insert", new>>
OpDelete(old)      == <<"Delete", old>>
OpUpdate(old, new) == <<"Update", old, new>>

(***************************************************************************)
(* Aggregator capability: COUNT and SUM.                                   *)
(***************************************************************************)
\* get_aggregator_from_aggregator_type + Aggregator::init; `ret` remembers
\* the value the aggregator returned last
Aggregator_new(typ) == [typ |-> typ, acc |-> 0, ret |-> None]

Aggregator_step(aggr, acc) == [aggr EXCEPT !.acc = acc, !.ret = Some(acc)]

\* Aggregator::insert(inserted_fields) -> new aggregate value
Aggregator_insert(aggr, inserted_fields) ==
    Aggregator_step(aggr, IF aggr.typ = "Count" THEN aggr.acc + 1
                          ELSE aggr.acc + inserted_fields[1])

\* Aggregator::delete(deleted_fields) -> new aggregate value
Aggregator_delete(aggr, deleted_fields) ==
    Aggregator_step(aggr, IF aggr.typ = "Count" THEN aggr.acc - 1
                          ELSE aggr.acc - deleted_fields[1])

\* Aggregator::update(old_fields, new_fields) -> new aggregate value
Aggregator_update(aggr, deleted_fields, inserted_fields) ==
    Aggregator_step(aggr, IF aggr.typ = "Count" THEN aggr.acc
                          ELSE aggr.acc - deleted_fields[1] + inserted_fields[1])

(***************************************************************************)
(* AggregationProcessor.                                                   *)
(***************************************************************************)
\* The query under study: SELECT a, COUNT(b), SUM(a + b) FROM t GROUP BY a
\* over input schema {a, b}, and the same without the GROUP BY.
InputCols == Len(<<"a", "b">>)
Measures == << <<Column(2)>>, <<Add(1, 2)>> >>
MeasureTypes == <<"Count", "Sum">>

\* AggregationState::new
AggregationState_new(types) ==
    [count  |-> 0,
     states |-> [i \in 1..Len(types) |-> Aggregator_new(types[i])],
     values |-> None]

\* the sentinel key of the single group of a query without dimensions: the
\* hash of DEFAULT_SEGMENT_KEY, fixed at construction
default_segment_key == Hash64(<<>>)

\* AggregationProcessor::new
AggregationProcessor_new(dimensions, projections, overflow_checks) ==
    [dimensions     |-> dimensions,
     measures       |-> Measures,
     measures_types |-> MeasureTypes,
     projections    |-> projections,
     states         |-> [k \in {} |-> 0],
     default_segment_key |-> default_segment_key,
     overflow_checks |-> overflow_checks]

\* Result<Hash, _> of the evaluated dimensions: `key.hash(&mut hasher)`
hash_key(key) == IF key.ok THEN Ok(Hash64(key.val)) ELSE key

\* get_key: hash of the evaluated dimensions
get_key(record, dimensions) == hash_key(EvaluateAll(dimensions, record))

\* `if !self.dimensions.is_empty() { get_key(..)? } else { default_segment_key }`
key_of(p, record) ==
    IF p.dimensions # <<>> THEN get_key(record, p.dimensions)
    ELSE Ok(p.default_segment_key)

\* the `match op` of calc_and_fill_measures: the call made on the aggregator
apply_aggr(curr_aggr, op, deleted_fields, inserted_fields) ==
    CASE op = "Insert" -> Aggregator_insert(curr_aggr, inserted_fields)
      [] op = "Delete" -> Aggregator_delete(curr_aggr, deleted_fields)
      [] op = "Update" -> Aggregator_update(curr_aggr, deleted_fields, inserted_fields)

\* AggregationProcessor::calc_and_fill_measures, from measure idx on.  The
\* aggregators are updated in place, so a failing measure leaves the earlier
\* ones updated.  Returns the state and Ok([del, ins]) or Err, where del is
\* out_rec_delete and ins is out_rec_insert (equal to new_fields).
RECURSIVE calc_from(_, _, _, _, _, _, _, _)
RECURSIVE calc_measure(_, _, _, _, _, _, _, _, _, _)
RECURSIVE calc_push(_, _, _, _, _, _, _, _, _)
calc_from(idx, curr_state, deleted_record, inserted_record, out_rec_delete, out_rec_insert, op, measures) ==
    IF idx > Len(measures)
    THEN [state |-> curr_state,
          res   |-> Ok([del |-> out_rec_delete, ins |-> out_rec_insert])]
    ELSE calc_measure(idx, curr_state, deleted_record, inserted_record,
                      out_rec_delete, out_rec_insert, op, measures,
                      IF op = "Insert" THEN Ok(<<>>)
                      ELSE EvaluateAll(measures[idx], deleted_record),
                      IF op = "Delete" THEN Ok(<<>>)
                      ELSE EvaluateAll(measures[idx], inserted_record))

\* one iteration of the loop over the measures, given the evaluated fields
calc_measure(idx, curr_state, deleted_record, inserted_record, out_rec_delete, out_rec_insert, op, measures, deleted_fields, inserted_fields) ==
    IF ~deleted_fields.ok THEN [state |-> curr_state, res |-> deleted_fields]
    ELSE IF ~inserted_fields.ok THEN [state |-> curr_state, res |-> inserted_fields]
    ELSE calc_push(idx, curr_state, deleted_record, inserted_record,
                   IF curr_state.values # None
                   THEN Append(out_rec_delete, curr_state.values[2][idx])
                   ELSE out_rec_delete,
                   out_rec_insert, op, measures,
                   apply_aggr(curr_state.states[idx], op,
                              deleted_fields.val, inserted_fields.val))

\* the end of one iteration: the aggregator aggr has been updated in place and
\* its new value is pushed
calc_push(idx, curr_state, deleted_record, inserted_record, out_rec_delete, out_rec_insert, op, measures, aggr) ==
    calc_from(idx + 1, [curr_state EXCEPT !.states[idx] = aggr],
              deleted_record, inserted_record,
              out_rec_delete, Append(out_rec_insert, aggr.acc), op, measures)

\* AggregationProcessor::calc_and_fill_measures
calc_and_fill_measures(curr_state, deleted_record, inserted_record, op, measures) ==
    calc_from(1, curr_state, deleted_record, inserted_record, <<>>, <<>>, op, measures)

\* AggregationProcessor::build_projection: the measures are appended to the
\* record, the projections evaluated, the record restored
build_projection(original, measures, projections) ==
    EvaluateAll(projections, original \o measures)

\* `count -= 1` on a usize: at 0 it panics when overflow checks are on and
\* wraps otherwise (the wrapped value usize::MAX is written -1)
usize_dec(n, overflow_checks) ==
    IF n = 0 /\ overflow_checks THEN Err(<<"panic", "attempt to subtract with overflow">>)
    ELSE Ok(n - 1)

\* `count += 1` on a usize (usize::MAX, written -1, wraps to 0)
usize_inc(n) == n + 1

\* the group table with the state of key written (entry().or_insert, get_mut)
SetState(p, key, st) ==
    [p EXCEPT !.states = [k \in DOMAIN p.states \cup {key} |->
                             IF k = key THEN st ELSE p.states[k]]]

\* self.states.remove(&key)
RemoveState(p, key) ==
    [p EXCEPT !.states = [k \in DOMAIN p.states \ {key} |-> p.states[k]]]

\* `Operation::Insert { new: build_projection(..)? }`
insert_result(new_rec) == IF new_rec.ok THEN Ok(OpInsert(new_rec.val)) ELSE new_rec

\* `Operation::Delete { old: build_projection(..)? }`
delete_result(old_rec) == IF old_rec.ok THEN Ok(OpDelete(old_rec.val)) ELSE old_rec

\* `Operation::Update { new: build_projection(..)?, old: build_projection(..)? }`
update_result(new_rec, old_rec) ==
    IF ~new_rec.ok THEN new_rec
    ELSE IF ~old_rec.ok THEN old_rec
    ELSE Ok(OpUpdate(old_rec.val, new_rec.val))

\* agg_delete, else branch: `count -= 1; values = Some(new_values)` and the
\* Update built after them
agg_delete_dec(p, old, key, calc, dec) ==
    IF ~dec.ok THEN [p |-> SetState(p, key, calc.state), res |-> dec]
    ELSE [p   |-> SetState(p, key, [calc.state EXCEPT !.count = dec.val,
                                                       !.values = Some(calc.res.val.ins)]),
          res |-> update_result(build_projection(old, calc.res.val.ins, p.projections),
                                build_projection(old, calc.res.val.del, p.projections))]

\* agg_delete from the return of calc_and_fill_measures on: the aggregators
\* of the group are already updated
agg_delete_calc(p, old, key, calc) ==
    IF ~calc.res.ok THEN [p |-> SetState(p, key, calc.state), res |-> calc.res]
    ELSE IF calc.state.count = 1
    THEN [p   |-> RemoveState(p, key),
          res |-> delete_result(build_projection(old, calc.res.val.del, p.projections))]
    ELSE agg_delete_dec(p, old, key, calc, usize_dec(calc.state.count, p.overflow_checks))

\* agg_delete from the group lookup on; a failed assert! is the error
\* <<"panic", ..>>
agg_delete_at(p, old, key) ==
    IF ~key.ok THEN [p |-> p, res |-> key]
    ELSE IF key.val \notin DOMAIN p.states
    THEN [p |-> p,
          res |-> Err(<<"panic", "Unable to find aggregator state during DELETE operation">>)]
    ELSE agg_delete_calc(p, old, key.val,
                         calc_and_fill_measures(p.states[key.val], old, <<>>,
                                                "Delete", p.measures))

\* AggregationProcessor::agg_delete: the processor after the call and the
\* Result<Operation, _>
agg_delete(p, old) == agg_delete_at(p, old, key_of(p, old))

\* agg_insert from the built operation on: `count += 1; values = Some(..)`
\* happen only when no projection failed
agg_insert_done(p, key, calc, res) ==
    IF ~res.ok THEN [p |-> SetState(p, key, calc.state), res |-> res]
    ELSE [p   |-> SetState(p, key, [calc.state EXCEPT !.count = usize_inc(@),
                                                       !.values = Some(calc.res.val.ins)]),
          res |-> res]

\* agg_insert from the return of calc_and_fill_measures on: the group is in
\* the table (entry().or_insert) and its aggregators are already updated
agg_insert_calc(p, new, key, calc) ==
    IF ~calc.res.ok THEN [p |-> SetState(p, key, calc.state), res |-> calc.res]
    ELSE agg_insert_done(p, key, calc,
            IF calc.state.count = 0
            THEN insert_result(build_projection(new, calc.res.val.ins, p.projections))
            ELSE update_result(build_projection(new, calc.res.val.ins, p.projections),
                               build_projection(new, calc.res.val.del, p.projections)))

\* agg_insert from the group lookup on
agg_insert_at(p, new, key) ==
    IF ~key.ok THEN [p |-> p, res |-> key]
    ELSE agg_insert_calc(p, new, key.val,
            calc_and_fill_measures(IF key.val \in DOMAIN p.states THEN p.states[key.val]
                                   ELSE AggregationState_new(p.measures_types),
                                   <<>>, new, "Insert", p.measures))

\* AggregationProcessor::agg_insert
agg_insert(p, new) == agg_insert_at(p, new, key_of(p, new))

\* agg_update from the built operation on: `values = Some(..)` happens only
\* when no projection failed
agg_update_done(p, key, calc, res) ==
    IF ~res.ok THEN [p |-> SetState(p, key, calc.state), res |-> res]
    ELSE [p   |-> SetState(p, key, [calc.state EXCEPT !.values = Some(calc.res.val.ins)]),
          res |-> res]

\* agg_update from the return of calc_and_fill_measures on
agg_update_calc(p, old, new, key, calc) ==
    IF ~calc.res.ok THEN [p |-> SetState(p, key, calc.state), res |-> calc.res]
    ELSE agg_update_done(p, key, calc,
            update_result(build_projection(new, calc.res.val.ins, p.projections),
                          build_projection(old, calc.res.val.del, p.projections)))

\* AggregationProcessor::agg_update
agg_update(p, old, new, key) ==
    IF key \notin DOMAIN p.states
    THEN [p |-> p,
          res |-> Err(<<"panic", "Unable to find aggregator state during UPDATE operation">>)]
    ELSE agg_update_calc(p, old, new, key,
                         calc_and_fill_measures(p.states[key], old, new,
                                                "Update", p.measures))

\* one element of `vec![..]`, lifted to the Result<Vec<Operation>, _> of aggregate
Single(r) == [p |-> r.p, res |-> IF r.res.ok THEN Ok(<<r.res.val>>) ELSE r.res]

\* C11, a faulty key-changing Update: the two events are returned in the
\* opposite order
delete_insert_swapped(d, i) ==
    IF ~i.res.ok THEN i
    ELSE [p |-> i.p, res |-> Ok(<<i.res.val, d.res.val>>)]

\* `vec![self.agg_delete(old)?, self.agg_insert(new)?]`, given the results d of
\* agg_delete and i of the agg_insert made after it
delete_insert_result(d, i) ==
    IF ~i.res.ok THEN i
    ELSE [p |-> i.p, res |-> Ok(<<d.res.val, i.res.val>>)]

\* `vec![self.agg_delete(old)?, self.agg_insert(new)?]`, given the result d of
\* agg_delete: agg_insert runs on the processor agg_delete left
delete_then_insert(d, new) ==
    IF ~d.res.ok THEN d
    ELSE delete_insert_result(d, agg_insert(d.p, new))

\* the Update arm of aggregate, given the two record hashes
aggregate_update(p, old, new, old_record_hash, new_record_hash) ==
    IF ~old_record_hash.ok THEN [p |-> p, res |-> old_record_hash]
    ELSE IF ~new_record_hash.ok THEN [p |-> p, res |-> new_record_hash]
    ELSE IF old_record_hash.val = new_record_hash.val
    THEN Single(agg_update(p, old, new, old_record_hash.val))
    ELSE delete_then_insert(agg_delete(p, old), new)

\* AggregationProcessor::aggregate
aggregate(p, op) ==
    CASE op[1] = "Insert" -> Single(agg_insert(p, op[2]))
      [] op[1] = "Delete" -> Single(agg_delete(p, op[2]))
      [] op[1] = "Update" -> aggregate_update(p, op[2], op[3],
                                              key_of(p, op[2]), key_of(p, op[3]))

\* `for fop in ops { fw.send(fop, DEFAULT_PORT_HANDLE)?; }`: the sends made,
\* each with its outcome, when the send number fail_at (if any) fails
SendAll(ops, fail_at) ==
    [i \in 1..(IF fail_at \in 1..Len(ops) THEN fail_at ELSE Len(ops)) |->
        <<ops[i], i # fail_at>>]

\* AggregationProcessor::process, given the result r of self.aggregate(op):
\* the processor after the call, the sends made and the outcome ("ok", "err",
\* or "panic" for a failed assert! / overflow)
process_result(r, fail_at) ==
    IF ~r.res.ok
    THEN [p |-> r.p, sent |-> <<>>,
          outcome |-> IF r.res.err[1] = "panic" THEN "panic" ELSE "err"]
    ELSE [p |-> r.p, sent |-> SendAll(r.res.val, fail_at),
          outcome |-> IF fail_at \in 1..Len(r.res.val) THEN "err" ELSE "ok"]

\* C12, a faulty commit: the group table is dropped
AggregationProcessor_commit_clearing(p, epoch) ==
    [p |-> [p EXCEPT !.states = [k \in {} |-> 0]], res |-> Ok(<<>>)]

\* AggregationProcessor::commit: `Ok(())`, on `&self`
AggregationProcessor_commit(p, epoch) == [p |-> p, res |-> Ok(<<>>)]

\* AggregationProcessor::process
AggregationProcessor_process(p, op, fail_at) == process_result(aggregate(p, op), fail_at)

(***************************************************************************)
(* The aggregation state machine.                                          *)
(***************************************************************************)
\* input rows {a, b}; a row whose b is null makes SUM(a + b) fail to evaluate
AggRows == {<<a, b>> : a \in 1..NumDims, b \in {Null} \cup (1..MaxVal)}

\* the two queries: grouped by a, and without dimensions; each built with
\* overflow checks on (debug) or off (release)
AggProcessors ==
    {AggregationProcessor_new(<<Column(1)>>,
                              <<Column(1), Column(InputCols + 1), Column(InputCols + 2)>>, oc)
        : oc \in BOOLEAN}
    \cup
    {AggregationProcessor_new(<<>>,
                              <<Column(InputCols + 1), Column(InputCols + 2)>>, oc)
        : oc \in BOOLEAN}

\* materialise operations in order: Insert adds new, Delete removes old,
\* Update replaces old by new
RECURSIVE MaterializeOps(_, _)
MaterializeOps(bag, ops) ==
    IF ops = <<>> THEN bag
    ELSE LET o == Head(ops)
             b1 == CASE o[1] = "Insert" -> BagAdd(bag, o[2], 1)
                     [] o[1] = "Delete" -> BagAdd(bag, o[2], -1)
                     [] o[1] = "Update" -> BagAdd(BagAdd(bag, o[2], -1), o[3], 1)
         IN MaterializeOps(b1, Tail(ops))

\* the input rows after an operation has been applied to them
ApplyOp(live, op) ==
    CASE op[1] = "Insert" -> BagAdd(live, op[2], 1)
      [] op[1] = "Delete" -> BagAdd(live, op[2], -1)
      [] op[1] = "Update" -> BagAdd(BagAdd(live, op[2], -1), op[3], 1)

\* the aggregation variables after construction of the given processor
AggStart(processor) ==
    /\ agg = processor
    /\ aggLive = EmptyBag
    /\ aggOut = EmptyBag
    /\ aggEmitted = <<>>
    /\ aggRet = "none"
    /\ aggSent = <<>>
    /\ aggRes = "none"
    /\ aggEv = NoEvent
    /\ aggValid = TRUE
    /\ aggFailed = FALSE
    /\ aggPrev = processor.states
    /\ aggCommit = "none"

\* one process call, with its effect on the ghost state; a panic ends the
\* processor, so no call follows one.  fail_at is the number of the send the
\* forwarder fails (0: none).
AggCall(op, valid) ==
    /\ steps < MaxSteps
    /\ aggRes # "panic"
    /\ \E r \in {aggregate(agg, op)} :
       \E fail_at \in 0..(IF r.res.ok THEN Len(r.res.val) ELSE 0) :
       \E pr \in {process_result(r, fail_at)} :
          /\ steps' = steps + 1
          /\ agg' = pr.p
          /\ aggEmitted' = IF r.res.ok THEN r.res.val ELSE <<>>
          /\ aggRet' = IF r.res.ok THEN "ok"
                       ELSE IF r.res.err[1] = "panic" THEN "panic" ELSE "err"
          /\ aggSent' = pr.sent
          /\ aggRes' = pr.outcome
          /\ aggEv' = op
          /\ aggLive' = IF r.res.ok THEN ApplyOp(aggLive, op) ELSE aggLive
          /\ aggOut' = IF r.res.ok THEN MaterializeOps(aggOut, r.res.val) ELSE aggOut
          /\ aggValid' = (aggValid /\ valid)
          /\ aggFailed' = (aggFailed \/ ~r.res.ok)
          /\ aggPrev' = agg.states
          /\ UNCHANGED <<joinVars, projVars, aggCommit>>

\* the epochs handed to commit
Epochs == 1..MaxEpoch

\* what the commit calls did so far, given the outcome so far and a commit
\* call that took processor p to the result r
commit_outcome(so_far, p, r) ==
    IF so_far \in {"err", "changed"} THEN so_far
    ELSE IF ~r.res.ok THEN "err"
    ELSE IF r.p # p THEN "changed"
    ELSE "ok"

\* commit(epoch), at any point at which the processor is alive
AggCommit ==
    /\ aggRes # "panic"
    /\ \E epoch \in Epochs :
       \E r \in {AggregationProcessor_commit(agg, epoch)} :
          /\ agg' = r.p
          /\ aggCommit' = commit_outcome(aggCommit, agg, r)
          /\ UNCHANGED <<aggLive, aggOut, aggEmitted, aggRet, aggSent, aggRes,
                         aggEv, aggValid, aggFailed, aggPrev>>
          /\ UNCHANGED <<joinVars, projVars, steps>>

\* process(Insert{new})
AggInsert ==
    \E new \in AggRows :
        /\ BagCount(aggLive, new) < MaxCopies
        /\ AggCall(OpInsert(new), TRUE)

\* process(Delete{old}) of a row the upstream holds
AggDelete ==
    \E old \in DOMAIN aggLive : AggCall(OpDelete(old), TRUE)

\* process(Update{old, new}) of a row the upstream holds
AggUpdate ==
    \E old \in DOMAIN aggLive, new \in AggRows :
        /\ BagCount(aggLive, new) < MaxCopies
        /\ AggCall(OpUpdate(old, new), TRUE)

\* the upstream breaks its contract: a Delete of a row it never inserted,
\* whose group is not in the table
AggDeleteMissing ==
    \E old \in AggRows :
        /\ old \notin DOMAIN aggLive
        /\ key_of(agg, old).ok
        /\ key_of(agg, old).val \notin DOMAIN agg.states
        /\ AggCall(OpDelete(old), FALSE)

\* the upstream breaks its contract: an Update that keeps the key, of a row
\* it never inserted, whose group is not in the table
AggUpdateMissing ==
    \E old \in AggRows, new \in AggRows :
        /\ old \notin DOMAIN aggLive
        /\ key_of(agg, old).ok
        /\ key_of(agg, old).val \notin DOMAIN agg.states
        /\ key_of(agg, new) = key_of(agg, old)
        /\ AggCall(OpUpdate(old, new), FALSE)

AggNext ==
    \/ AggInsert
    \/ AggDelete
    \/ AggUpdate
    \/ AggDeleteMissing
    \/ AggUpdateMissing
    \/ AggCommit

(***************************************************************************)
(* Aggregation: derived notions used by the properties.                    *)
(***************************************************************************)
\* the sum of f over the finite set S
RECURSIVE SumOver(_, _)
SumOver(f, S) ==
    IF S = {} THEN 0
    ELSE LET x == CHOOSE y \in S : TRUE IN f[x] + SumOver(f, S \ {x})

\* the live rows whose dimensions hash to key
RowsOfKey(p, live, key) == {r \in DOMAIN live : key_of(p, r) = Ok(key)}

\* the number of live rows whose dimensions hash to key
LiveCount(p, live, key) ==
    SumOver([r \in RowsOfKey(p, live, key) |-> live[r]], RowsOfKey(p, live, key))

\* the dimension keys of the live rows
LiveKeys(p, live) == {key_of(p, r).val : r \in DOMAIN live}

\* the argument of measure i on row r
MeasureArg(i, r) == Evaluate(Measures[i][1], r).val

\* the row of the group of key in
\* SELECT projections, COUNT(..), SUM(..) FROM live GROUP BY dimensions
GroupRow(p, live, key) ==
    build_projection(CHOOSE r \in RowsOfKey(p, live, key) : TRUE,
                     <<LiveCount(p, live, key),
                       SumOver([r \in RowsOfKey(p, live, key) |-> live[r] * MeasureArg(2, r)],
                               RowsOfKey(p, live, key))>>,
                     p.projections).val

\* SELECT projections FROM live GROUP BY dimensions, as a bag of rows
SqlGroupBy(p, live) ==
    [row \in {GroupRow(p, live, k) : k \in LiveKeys(p, live)} |->
        Cardinality({k \in LiveKeys(p, live) : GroupRow(p, live, k) = row})]

\* the last call was a Delete, or an Update that keeps the key, for a key
\* that had no entry in the group table
MissingGroupCall ==
    /\ aggEv # NoEvent
    /\ aggEv[1] \in {"Delete", "Update"}
    /\ key_of(agg, aggEv[2]).ok
    /\ key_of(agg, aggEv[2]).val \notin DOMAIN aggPrev
    /\ aggEv[1] = "Update" => key_of(agg, aggEv[3]) = key_of(agg, aggEv[2])

\* some send of the sequence failed
SendFailed(sent) == \E i \in DOMAIN sent : ~sent[i][2]

\* no send was made after a failed one
NoSendAfterFailure(sent) == \A i \in DOMAIN sent : ~sent[i][2] => i = Len(sent)

\* C2: aggregation equivalence. After any valid input stream applied through
\* aggregate, the materialised emitted operations are exactly one row per
\* dimension key with a live input row: the projection of the key's dimension
\* values and of the aggregates computed over the live rows of that key.
C2_AggregationEquivalence ==
    aggValid => aggOut = SqlGroupBy(agg, aggLive)

\* C5: group-table minimality. After every successful aggregate call of a
\* valid input stream, a key is in the group table iff some live input row
\* has that dimension key, and no stored state has count 0.
C5_GroupTableMinimality ==
    (aggValid /\ aggRet = "ok") =>
        /\ DOMAIN agg.states = LiveKeys(agg, aggLive)
        /\ \A k \in DOMAIN agg.states : agg.states[k].count # 0

\* C6: count/values coherence. After every successful aggregate call of a
\* valid input stream, every group's count is the number of live input rows
\* with its key, and its values is Some(v), v holding per measure the value
\* last returned by that measure's aggregator.
C6_CountValuesCoherence ==
    (aggValid /\ aggRet = "ok") =>
        \A k \in DOMAIN agg.states :
            /\ agg.states[k].count = LiveCount(agg, aggLive, k)
            /\ agg.states[k].values # None
            /\ Len(agg.states[k].values[2]) = Len(agg.measures)
            /\ \A i \in 1..Len(agg.measures) :
                   Some(agg.states[k].values[2][i]) = agg.states[k].states[i].ret

\* C9: a missing group is an error. A Delete, or an Update that keeps the
\* key, for a key without an entry in the group table makes process return
\* an error value, send nothing and leave the group table unchanged.
C9_MissingGroupIsError ==
    MissingGroupCall =>
        /\ aggRes = "err"
        /\ aggSent = <<>>
        /\ agg.states = aggPrev

(***************************************************************************)
(* ProjectionProcessor.                                                    *)
(***************************************************************************)
\* Record with its lifetime annotation
Rec(values, lifetime) == [values |-> values, lifetime |-> lifetime]

\* ProjectionProcessor::new
ProjectionProcessor_new(expressions) == [expressions |-> expressions]

\* ProjectionProcessor::delete
ProjectionProcessor_delete(p, record) ==
    LET results == EvaluateAll(p.expressions, record.values) IN
    IF ~results.ok THEN Err(<<"InternalError", results.err>>)
    ELSE Ok(OpDelete(Rec(results.val, record.lifetime)))

\* ProjectionProcessor::insert
ProjectionProcessor_insert(p, record) ==
    LET results == EvaluateAll(p.expressions, record.values) IN
    IF ~results.ok THEN Err(<<"InternalError", results.err>>)
    ELSE Ok(OpInsert(Rec(results.val, record.lifetime)))

\* C8, a faulty update: the output records carry each other's lifetime
ProjectionProcessor_update_swapped(p, old, new) ==
    IF \E e \in DOMAIN p.expressions :
          ~Evaluate(p.expressions[e], old.values).ok \/ ~Evaluate(p.expressions[e], new.values).ok
    THEN Err(<<"InternalError", <<"InvalidOperandType">>>>)
    ELSE Ok(OpUpdate(Rec([e \in DOMAIN p.expressions |->
                             Evaluate(p.expressions[e], old.values).val], new.lifetime),
                     Rec([e \in DOMAIN p.expressions |->
                             Evaluate(p.expressions[e], new.values).val], old.lifetime)))

\* ProjectionProcessor::update: each expression is evaluated on old, then on new
ProjectionProcessor_update(p, old, new) ==
    LET old_results == [i \in 1..Len(p.expressions) |-> Evaluate(p.expressions[i], old.values)]
        new_results == [i \in 1..Len(p.expressions) |-> Evaluate(p.expressions[i], new.values)]
        bad == {i \in 1..Len(p.expressions) : ~old_results[i].ok \/ ~new_results[i].ok}
    IN IF bad # {}
       THEN LET i == CHOOSE n \in bad : \A m \in bad : n <= m IN
            Err(<<"InternalError",
                  IF ~old_results[i].ok THEN old_results[i].err ELSE new_results[i].err>>)
       ELSE Ok(OpUpdate(Rec([i \in 1..Len(p.expressions) |-> old_results[i].val], old.lifetime),
                        Rec([i \in 1..Len(p.expressions) |-> new_results[i].val], new.lifetime)))

\* the body of ProjectionProcessor::process, given the Result of delete /
\* insert / update: `?` returns the error before any send; the Result of
\* fw.send is bound to `_` and Ok(()) returned
send_built(p, built, send_fails) ==
    IF ~built.ok THEN [p |-> p, sent |-> <<>>, outcome |-> "err"]
    ELSE [p |-> p, sent |-> << <<built.val, ~send_fails>> >>, outcome |-> "ok"]

\* ProjectionProcessor::process
ProjectionProcessor_process(p, op, send_fails) ==
    send_built(p,
               CASE op[1] = "Delete" -> ProjectionProcessor_delete(p, op[2])
                 [] op[1] = "Insert" -> ProjectionProcessor_insert(p, op[2])
                 [] op[1] = "Update" -> ProjectionProcessor_update(p, op[2], op[3]),
               send_fails)

\* ProjectionProcessor::commit: `Ok(())`, on `&self`
ProjectionProcessor_commit(p, epoch) == [p |-> p, res |-> Ok(<<>>)]

(***************************************************************************)
(* The projection state machine.                                           *)
(***************************************************************************)
\* Scenario A of the specification: schema {a, b}, expressions [a + b, b];
\* a field is null or a small integer, a lifetime is absent or present
ProjFields == {Null} \cup (1..MaxVal)
Lifetimes == {None, Some(MaxVal)}
ProjRecords == {Rec(<<a, b>>, lt) : a \in ProjFields, b \in ProjFields, lt \in Lifetimes}

ProjStart ==
    /\ proj = ProjectionProcessor_new(<<Add(1, 2), Column(2)>>)
    /\ projSent = <<>>
    /\ projRes = "none"
    /\ projEv = NoEvent
    /\ projCommit = "none"

\* one process call; send_fails tells whether the forwarder fails the send
ProjCall(op, send_fails) ==
    \E r \in {ProjectionProcessor_process(proj, op, send_fails)} :
       /\ proj' = r.p
       /\ projSent' = r.sent
       /\ projRes' = r.outcome
       /\ projEv' = op
       /\ UNCHANGED <<joinVars, aggVars, steps, projCommit>>

\* process(Insert{new})
ProjInsert ==
    \E new \in ProjRecords, send_fails \in BOOLEAN :
        /\ ProjCall(OpInsert(new), send_fails)

\* process(Delete{old})
ProjDelete ==
    \E old \in ProjRecords, send_fails \in BOOLEAN :
        /\ ProjCall(OpDelete(old), send_fails)

\* process(Update{old, new})
ProjUpdate ==
    \E old \in ProjRecords, new \in ProjRecords, send_fails \in BOOLEAN :
        /\ ProjCall(OpUpdate(old, new), send_fails)

\* commit(epoch), at any point
ProjCommit ==
    \E epoch \in Epochs :
    \E r \in {ProjectionProcessor_commit(proj, epoch)} :
       /\ proj' = r.p
       /\ projCommit' = commit_outcome(projCommit, proj, r)
       /\ UNCHANGED <<projSent, projRes, projEv>>
       /\ UNCHANGED <<joinVars, aggVars, steps>>

ProjNext ==
    \/ ProjInsert
    \/ ProjDelete
    \/ ProjUpdate
    \/ ProjCommit

(***************************************************************************)
(* Projection: derived notions used by the properties.                     *)
(***************************************************************************)
\* the records of an operation, old before new
RecordsOf(op) == [i \in 1..(Len(op) - 1) |-> op[i + 1]]

\* some expression fails to evaluate on a record of the last operation
ProjEvalFails ==
    /\ projEv # NoEvent
    /\ \E i \in DOMAIN RecordsOf(projEv), e \in DOMAIN proj.expressions :
           ~Evaluate(proj.expressions[e], RecordsOf(projEv)[i].values).ok

\* row |-> evaluate(E, row), keeping the lifetime
ProjectRecord(E, rec) ==
    Rec([e \in DOMAIN E |-> Evaluate(E[e], rec.values).val], rec.lifetime)

\* the operation of the same variant over the projected records
ProjectOperation(E, op) ==
    <<op[1]>> \o [i \in DOMAIN RecordsOf(op) |-> ProjectRecord(E, RecordsOf(op)[i])]

\* C8: projection is a per-event homomorphism. For every input operation
\* whose expressions all evaluate, process sends exactly one operation, of
\* the same variant, whose records hold the expression values of the matching
\* input record in declared order and that record's lifetime; the processor
\* is as constructed.
C8_ProjectionHomomorphism ==
    (projEv # NoEvent /\ ~ProjEvalFails) =>
        /\ Len(projSent) = 1
        /\ projSent[1][1] = ProjectOperation(proj.expressions, projEv)
        /\ proj = ProjectionProcessor_new(<<Add(1, 2), Column(2)>>)

\* C8 (case reached): an Update whose two records carry different lifetimes
\* and evaluate has been processed and one operation sent.
C8_Witness ==
    /\ projEv # NoEvent
    /\ ~ProjEvalFails
    /\ projEv[1] = "Update"
    /\ projEv[2].lifetime # projEv[3].lifetime
    /\ projEv[2].values # projEv[3].values
    /\ Len(projSent) = 1

\* C8 as first stated: for every input operation, whether or not its
\* expressions evaluate, process sends exactly one operation.
C8_EveryInputSendsOne ==
    projEv # NoEvent => Len(projSent) = 1

\* C10: every error aborts process. For the projection and the aggregation
\* processor alike, when an expression fails to evaluate or a send fails
\* during a process call, the call returns an error and makes no further send.
C10_ErrorsAbortProcess ==
    /\ (ProjEvalFails \/ SendFailed(projSent)) =>
           (projRes = "err" /\ NoSendAfterFailure(projSent))
    /\ (aggRet = "err" \/ SendFailed(aggSent)) =>
           (aggRes = "err" /\ NoSendAfterFailure(aggSent))

(***************************************************************************)
(* Emission order (join and aggregation).                                  *)
(***************************************************************************)
\* the tuple's composite lookup key lacks one side: a null-padded row
IsPadded(t) == t[3][2] = None \/ t[3][3] = None

\* the last call went through right_join_reverse or left_join_reverse
ReverseCall ==
    /\ jev # NoEvent
    /\ \/ jo.operator = "RightOuter" /\ jev[2] = LeftPort
       \/ jo.operator = "LeftOuter" /\ jev[2] = RightPort

\* the index entries the last call iterated over: the other side's bucket at
\* the arriving record's join key
IteratedBucket ==
    IF jev[2] = LeftPort
    THEN GetVecOrEmpty(jo.right_lookup_index_map, Hash64(LeftKey(jev[3])))
    ELSE GetVecOrEmpty(jo.left_lookup_index_map, Hash64(RightKey(jev[3])))

\* the other side's lookup key of each emitted tuple that is not null-padded
EntryKeys ==
    LET keep(t) == ~IsPadded(t)
        real == SelectSeq(emitted, keep)
    IN [n \in 1..Len(real) |->
          IF jev[2] = LeftPort THEN real[n][3][3][2] ELSE real[n][3][2][2]]

\* keys is a run of bucket[1], then a run of bucket[2], and so on
RECURSIVE InRuns(_, _)
InRuns(keys, bucket) ==
    IF keys = <<>> THEN TRUE
    ELSE IF bucket = <<>> THEN FALSE
    ELSE IF Head(keys) = Head(bucket) THEN InRuns(Tail(keys), bucket)
    ELSE InRuns(keys, Tail(bucket))

\* join: the tuples of the i-th index entry precede those of the (i+1)-th,
\* and in a zero-crossing pair the Delete is followed at once by the Insert
JoinEmissionOrder ==
    (jev # NoEvent /\ jev[2] \in {LeftPort, RightPort} /\ jres = "ok") =>
        /\ InRuns(EntryKeys, IteratedBucket)
        /\ ReverseCall =>
             \A n \in DOMAIN emitted : IsPadded(emitted[n]) =>
                \/ /\ emitted[n][1] = "Delete"
                   /\ n < Len(emitted)
                   /\ emitted[n + 1][1] = "Insert" /\ ~IsPadded(emitted[n + 1])
                \/ /\ emitted[n][1] = "Insert"
                   /\ n > 1
                   /\ emitted[n - 1][1] = "Delete" /\ ~IsPadded(emitted[n - 1])

\* the last aggregation call was an Update whose records have different keys
KeyChangingUpdate ==
    /\ aggEv # NoEvent
    /\ aggEv[1] = "Update"
    /\ key_of(agg, aggEv[2]).ok /\ key_of(agg, aggEv[3]).ok
    /\ key_of(agg, aggEv[2]) # key_of(agg, aggEv[3])

\* aggregation: the sends are the returned operations in their order, all of
\* them when no send fails; for a key-changing Update the event about old's
\* group (the projected column a is old's) precedes the one about new's group
AggEmissionOrder ==
    /\ Len(aggSent) <= Len(aggEmitted)
    /\ \A i \in DOMAIN aggSent : aggSent[i][1] = aggEmitted[i]
    /\ aggRes = "ok" => Len(aggSent) = Len(aggEmitted)
    /\ (KeyChangingUpdate /\ aggRet = "ok") =>
          /\ Len(aggEmitted) = 2
          /\ aggEmitted[1][1] \in {"Delete", "Update"}
          /\ aggEmitted[1][2][1] = aggEv[2][1]
          /\ aggEmitted[2][1] \in {"Insert", "Update"}
          /\ aggEmitted[2][Len(aggEmitted[2])][1] = aggEv[3][1]

\* C11: emission order is preserved. Within one invocation the events reach
\* the forwarder or the caller in the order they were generated: the event of
\* agg_delete(old) before that of agg_insert(new), the tuples of the i-th
\* matching index entry before those of the (i+1)-th, the Delete of a
\* zero-crossing pair before its Insert.
C11_EmissionOrder == JoinEmissionOrder /\ AggEmissionOrder

\* C11 (case reached): a call iterated over an index bucket of two different
\* entries and returned tuples for both.
C11_Witness ==
    /\ jev # NoEvent /\ jev[2] \in {LeftPort, RightPort} /\ jres = "ok"
    /\ Len(IteratedBucket) = 2
    /\ IteratedBucket[1] # IteratedBucket[2]
    /\ EntryKeys = IteratedBucket

(***************************************************************************)
(* Commit.                                                                 *)
(***************************************************************************)
\* C12: commit is a no-op.  However many commit calls were made, and wherever
\* among the process calls, each of them returned Ok and left the processor
\* (group table, expressions) exactly as it was; the process calls after it
\* therefore run on the state they would have had without it.
C12_CommitIsNoOp ==
    /\ aggCommit \in {"none", "ok"}
    /\ projCommit \in {"none", "ok"}

\* C12 (case reached): commit was called on an aggregation processor that
\* holds a group and whose last process call sent an event.
C12_Witness ==
    /\ aggCommit = "ok"
    /\ DOMAIN agg.states # {}
    /\ aggRes = "ok" /\ aggSent # <<>>

(***************************************************************************)
(* Join: lookup indexes and record stores.                                 *)
(***************************************************************************)
\* the last call was made on a port of the join, so that a leaf executed it
LeafCall == jev # NoEvent /\ jev[2] \in {LeftPort, RightPort}

\* the lookup index and the record store of the side a port belongs to
IndexOf(j, port) ==
    IF port = LeftPort THEN j.left_lookup_index_map ELSE j.right_lookup_index_map
StoreOf(j, port) ==
    IF port = LeftPort THEN j.left_source.record_store ELSE j.right_source.record_store

\* hash of the join key of a record arriving on a port
JoinKeyHash(port, record) ==
    Hash64(IF port = LeftPort THEN LeftKey(record) ELSE RightKey(record))

\* number of occurrences of v in the sequence
Occurrences(seq, v) == Cardinality({i \in DOMAIN seq : seq[i] = v})

\* seq without one occurrence of v: the same values, v once less
LostOne(before, after, v) ==
    /\ Len(after) = Len(before) - 1
    /\ \A i \in DOMAIN before :
          Occurrences(after, before[i])
              = Occurrences(before, before[i]) - (IF before[i] = v THEN 1 ELSE 0)

\* C13: a Delete removes exactly one entry of the side's lookup index, at the
\* record's join-key hash; every other entry under that join-key hash, and
\* every other bucket, stays.
C13_IndexDeleteRemovesOne ==
    (LeafCall /\ jev[1] = "Delete") =>
        /\ LostOne(GetVecOrEmpty(IndexOf(joPrev, jev[2]), JoinKeyHash(jev[2], jev[3])),
                   GetVecOrEmpty(IndexOf(jo, jev[2]), JoinKeyHash(jev[2], jev[3])),
                   Lookup(Hash64(jev[3])))
        /\ \A k \in DOMAIN IndexOf(joPrev, jev[2]) \ {JoinKeyHash(jev[2], jev[3])} :
               GetVecOrEmpty(IndexOf(jo, jev[2]), k) = IndexOf(joPrev, jev[2])[k]

\* the copies of the last call's record held by its leaf before / after it
CopiesBefore == GetVecOrEmpty(StoreOf(joPrev, jev[2]), Hash64(jev[3]))
CopiesAfter  == GetVecOrEmpty(StoreOf(jo, jev[2]), Hash64(jev[3]))

\* C14: the record store keeps duplicates.  An Insert adds one copy of r
\* under hash64(r.values), a Delete removes exactly one copy, and as long as
\* a copy is left lookup(Lookup(h)) returns the copies left.
C14_StoreKeepsDuplicates ==
    LeafCall =>
        /\ Len(CopiesAfter)
             = Len(CopiesBefore) + (IF jev[1] = "Insert" THEN 1 ELSE -1)
        /\ \A i \in DOMAIN CopiesAfter : CopiesAfter[i] = jev[3]
        /\ CopiesAfter # <<>> =>
              JoinTable_lookup(IF jev[2] = LeftPort THEN jo.left_source
                               ELSE jo.right_source,
                               Lookup(Hash64(jev[3]))) = Ok(CopiesAfter)

\* every lookup key in the index of a side is the hash of a stored record
IndexWithinStore(index, store) ==
    \A k \in DOMAIN index : \A i \in DOMAIN index[k] :
        /\ index[k][i][1] = "Lookup"
        /\ index[k][i][2] \in DOMAIN store
        /\ store[index[k][i][2]] # <<>>

\* C15: the lookup index never refers to retracted records.  After every
\* execute call, every lookup key in the left (right) lookup index is the
\* content hash of a record present in the left (right) record store.
C15_IndexWithinStore ==
    /\ IndexWithinStore(jo.left_lookup_index_map, jo.left_source.record_store)
    /\ IndexWithinStore(jo.right_lookup_index_map, jo.right_source.record_store)

\* C15 (case reached): a Delete was executed on a side whose index held
\* entries before it and still holds entries after it.
C15_Witness ==
    /\ LeafCall /\ jev[1] = "Delete"
    /\ MMSize(IndexOf(joPrev, jev[2])) >= 2
    /\ MMSize(IndexOf(jo, jev[2])) >= 1

\* the match count the reverse join computed in the last call: size of the
\* arriving side's bucket at the join key, read after the index update, less
\* one for an Insert
MatchCount ==
    Len(GetVecOrEmpty(IndexOf(jo, jev[2]), JoinKeyHash(jev[2], jev[3])))
        - (IF jev[1] = "Insert" THEN 1 ELSE 0)

\* live records of the arriving side, other than the arriving record itself,
\* that share its join key
LiveOthers ==
    LET live == IF jev[2] = LeftPort THEN liveL ELSE liveR
        same == {x \in DOMAIN live :
                    JoinKeyHash(jev[2], x) = JoinKeyHash(jev[2], jev[3])}
    IN SumOver(live, same) - (IF jev[1] = "Insert" THEN 1 ELSE 0)

\* C16: in a reverse join that finds matching records, the count used to
\* decide zero-crossing equals the number of live records of the arriving
\* side, other than the arriving record, sharing the join key; null-padded
\* compensation is emitted exactly when that number is 0.
C16_PreEventMatchCount ==
    (ReverseCall /\ jres = "ok" /\ IteratedBucket # <<>>) =>
        /\ MatchCount = LiveOthers
        /\ (\E n \in DOMAIN emitted : IsPadded(emitted[n])) <=> (LiveOthers = 0)

(***************************************************************************)
(* Aggregation: per-event dispatch.                                        *)
(***************************************************************************)
\* the processor as it was before the last process call
PrevProc == [agg EXCEPT !.states = aggPrev]

\* the state the last call found for a key: the group's entry, or the fresh
\* state of a group that has none
PrevGroup(key) ==
    IF key \in DOMAIN aggPrev THEN aggPrev[key]
    ELSE AggregationState_new(agg.measures_types)

\* the dimensions and every measure argument of the row evaluate
RowEvaluates(row) ==
    /\ key_of(agg, row).ok
    /\ \A i \in 1..Len(agg.measures) : EvaluateAll(agg.measures[i], row).ok

\* the values the aggregators of state st return for an insert of row, for a
\* delete of row, and for an update of old to new
InsertValues(st, row) ==
    [i \in 1..Len(agg.measures) |->
        Aggregator_insert(st.states[i], EvaluateAll(agg.measures[i], row).val).acc]
DeleteValues(st, row) ==
    [i \in 1..Len(agg.measures) |->
        Aggregator_delete(st.states[i], EvaluateAll(agg.measures[i], row).val).acc]
UpdateValues(st, old, new) ==
    [i \in 1..Len(agg.measures) |->
        Aggregator_update(st.states[i], EvaluateAll(agg.measures[i], old).val,
                          EvaluateAll(agg.measures[i], new).val).acc]

\* the values field of a state, as the list pushed to out_rec_delete
ValuesBefore(st) == IF st.values = None THEN <<>> ELSE st.values[2]

\* project(row, values): the projections over the row and the values
Project(row, values) == build_projection(row, values, agg.projections)

\* the last process call, by the variant of its operation
InsertCall == aggEv # NoEvent /\ aggEv[1] = "Insert"
DeleteCall == aggEv # NoEvent /\ aggEv[1] = "Delete"
UpdateCall == aggEv # NoEvent /\ aggEv[1] = "Update"

\* an Update whose old and new record have the same dimension key
SameKeyUpdate ==
    /\ UpdateCall
    /\ key_of(agg, aggEv[2]).ok
    /\ key_of(agg, aggEv[2]) = key_of(agg, aggEv[3])

\* the number of live rows of the key before the last call: a successful
\* Insert has added its row since
LiveBeforeInsert(key) ==
    LiveCount(agg, aggLive, key) - (IF aggRet = "ok" THEN 1 ELSE 0)

\* what C17 says of an Insert of new into the group of key, found in state prev
InsertDispatch(key, prev, new) ==
    /\ aggRet = "ok"
    /\ Len(aggEmitted) = 1
    /\ Ok(aggEmitted[1])
         = (IF LiveBeforeInsert(key) = 0
            THEN insert_result(Project(new, InsertValues(prev, new)))
            ELSE update_result(Project(new, InsertValues(prev, new)),
                               Project(new, ValuesBefore(prev))))
    /\ key \in DOMAIN agg.states
    /\ agg.states[key].count = prev.count + 1
    /\ agg.states[key].values = Some(InsertValues(prev, new))

\* C17: aggregation Insert dispatch.  On Insert{new}, a group without live
\* rows before the event gives exactly one Insert{new = project(new, new
\* measure values)}; otherwise exactly one Update{old = project(new, values
\* before), new = project(new, values after)}; either way the group's count
\* is then one more and its values are the new values.
C17_InsertDispatch ==
    (InsertCall /\ RowEvaluates(aggEv[2])) =>
        InsertDispatch(key_of(agg, aggEv[2]).val,
                       PrevGroup(key_of(agg, aggEv[2]).val), aggEv[2])

\* what C18 says of a Delete of old from the group of key, found in state prev
DeleteDispatch(key, prev, old) ==
    /\ aggRet = "ok"
    /\ Len(aggEmitted) = 1
    /\ IF prev.count = 1
       THEN /\ key \notin DOMAIN agg.states
            /\ Ok(aggEmitted[1]) = delete_result(Project(old, ValuesBefore(prev)))
       ELSE /\ key \in DOMAIN agg.states
            /\ agg.states[key].count = prev.count - 1
            /\ agg.states[key].values = Some(DeleteValues(prev, old))
            /\ Ok(aggEmitted[1])
                 = update_result(Project(old, DeleteValues(prev, old)),
                                 Project(old, ValuesBefore(prev)))

\* C18: aggregation Delete dispatch.  On Delete{old} for a group that is in
\* the table: with count 1 the group is removed and exactly one
\* Delete{old = project(old, values before)} is emitted; otherwise the count
\* is one less, the values are the aggregators' delete results and exactly
\* one Update{old = project(old, before), new = project(old, after)} is
\* emitted.
C18_DeleteDispatch ==
    (/\ DeleteCall /\ RowEvaluates(aggEv[2])
     /\ key_of(agg, aggEv[2]).val \in DOMAIN aggPrev) =>
        DeleteDispatch(key_of(agg, aggEv[2]).val,
                       PrevGroup(key_of(agg, aggEv[2]).val), aggEv[2])

\* what C19 says of an Update of old to new within the group of key
UpdateDispatch(key, prev, old, new) ==
    /\ aggRet = "ok"
    /\ Len(aggEmitted) = 1
    /\ Ok(aggEmitted[1])
         = update_result(Project(new, UpdateValues(prev, old, new)),
                         Project(old, ValuesBefore(prev)))
    /\ key \in DOMAIN aggPrev
    /\ key \in DOMAIN agg.states
    /\ agg.states[key].count = prev.count

\* C19: aggregation Update with unchanged key.  When old and new have the
\* same dimension key (or there are no dimensions), aggregate emits exactly
\* one Update, never a Delete or an Insert, whether or not the values change,
\* and the group stays in the table with its count unchanged.
C19_SameKeyUpdate ==
    (/\ SameKeyUpdate /\ aggValid
     /\ RowEvaluates(aggEv[2]) /\ RowEvaluates(aggEv[3])) =>
        UpdateDispatch(key_of(agg, aggEv[2]).val,
                       PrevGroup(key_of(agg, aggEv[2]).val), aggEv[2], aggEv[3])

\* what C20 says of a key-changing Update, given the result d of processing
\* Delete{old} on the processor as it was and the result i of processing
\* Insert{new} after it
DeleteInsertRefinement(d, i, old_key, new_key) ==
    /\ aggRet = "ok"
    /\ d.res.ok /\ i.res.ok
    /\ Len(aggEmitted) = 2
    /\ aggEmitted = d.res.val \o i.res.val
    /\ aggEmitted[1][1] = (IF PrevGroup(old_key).count = 1 THEN "Delete" ELSE "Update")
    /\ aggEmitted[2][1] = (IF new_key \notin DOMAIN aggPrev THEN "Insert" ELSE "Update")
    /\ agg = i.p

\* Delete{old} processed on the processor as it was, then Insert{new}
DeleteThenInsert(d) ==
    DeleteInsertRefinement(d, aggregate(d.p, OpInsert(aggEv[3])),
                           key_of(agg, aggEv[2]).val, key_of(agg, aggEv[3]).val)

\* C20: aggregation Update with changed key.  When old and new have different
\* dimension keys, aggregate returns exactly two events, the event of
\* agg_delete(old) (a Delete when old's group had count 1, else an Update)
\* and then the event of agg_insert(new) (an Insert when new's group was
\* absent, else an Update), and the group table is the one that processing
\* Delete{old} and then Insert{new} gives.
C20_KeyChangeIsDeleteInsert ==
    (/\ KeyChangingUpdate /\ aggValid
     /\ RowEvaluates(aggEv[2]) /\ RowEvaluates(aggEv[3])) =>
        DeleteThenInsert(aggregate(PrevProc, OpDelete(aggEv[2])))

(***************************************************************************)
(* Join: expansion of one arrival.                                         *)
(***************************************************************************)
\* the live records of the side opposite to the last call's port
OtherLive == IF jev[2] = LeftPort THEN liveR ELSE liveL

\* the live records of the opposite side whose join key is the arriving one
LiveMatches ==
    {x \in DOMAIN OtherLive :
        IF jev[2] = LeftPort THEN Matches(jev[3], x) ELSE Matches(x, jev[3])}

\* the tuple joining the arriving record of the last call with record x of
\* the opposite side
JoinedTuple(x) ==
    IF jev[2] = LeftPort
    THEN <<jev[1], join_records(jev[3], x),
           Composite(Some(Lookup(Hash64(jev[3]))), Some(Lookup(Hash64(x))))>>
    ELSE <<jev[1], join_records(x, jev[3]),
           Composite(Some(Lookup(Hash64(x))), Some(Lookup(Hash64(jev[3]))))>>

\* a sequence as a bag
SeqBag(seq) == [x \in {seq[i] : i \in DOMAIN seq} |-> Occurrences(seq, x)]

\* one joined tuple per live matching record of the opposite side
ExpectedExpansion ==
    [t \in {JoinedTuple(x) : x \in LiveMatches} |->
        OtherLive[CHOOSE x \in LiveMatches : JoinedTuple(x) = t]]

\* the last call left index and store of the opposite side as they were
OtherSideUnchanged ==
    IF jev[2] = LeftPort
    THEN /\ jo.right_lookup_index_map = joPrev.right_lookup_index_map
         /\ jo.right_source = joPrev.right_source
    ELSE /\ jo.left_lookup_index_map = joPrev.left_lookup_index_map
         /\ jo.left_source = joPrev.left_source

\* C21: inner join expansion.  An arrival (action, record) on either side of
\* an Inner join emits exactly one tuple (action, left ++ right,
\* Composite{Some(lk), Some(rk)}) per live record of the other side with the
\* same join key, nothing when there is none, and leaves the other side's
\* index and store unchanged.
C21_InnerJoinExpansion ==
    (LeafCall /\ jo.operator = "Inner") =>
        /\ jres = "ok"
        /\ SeqBag(emitted) = ExpectedExpansion
        /\ OtherSideUnchanged

\* the last call was an arrival on the preserved side of an outer join
PreservedCall ==
    /\ LeafCall
    /\ \/ jo.operator = "LeftOuter" /\ jev[2] = LeftPort
       \/ jo.operator = "RightOuter" /\ jev[2] = RightPort

\* the arriving record of the last call joined with the all-null record of
\* the opposite side's schema
PlaceholderTuple ==
    IF jev[2] = LeftPort
    THEN <<jev[1], join_records(jev[3], [i \in 1..RightCols |-> Null]),
           Composite(Some(Lookup(Hash64(jev[3]))), None)>>
    ELSE <<jev[1], join_records([i \in 1..LeftCols |-> Null], jev[3]),
           Composite(None, Some(Lookup(Hash64(jev[3]))))>>

\* C22: outer join, arrival on the preserved side.  With no live matching
\* record on the other side exactly one tuple is emitted, the arriving record
\* padded with nulls under the key Composite{Some(lk), None} (mirrored for
\* RightOuter); with matches one joined tuple per match and no placeholder.
C22_PreservedSideArrival ==
    PreservedCall =>
        /\ jres = "ok"
        /\ SeqBag(emitted) = IF LiveMatches = {}
                             THEN SeqBag(<<PlaceholderTuple>>)
                             ELSE ExpectedExpansion

\* the last call was an arrival on the side an outer join does not preserve
NonPreservedCall ==
    /\ LeafCall
    /\ \/ jo.operator = "RightOuter" /\ jev[2] = LeftPort
       \/ jo.operator = "LeftOuter" /\ jev[2] = RightPort

\* the entries of the last call's record in its side's index bucket
EntriesBefore ==
    GetVecOrEmpty(IndexOf(joPrev, jev[2]), JoinKeyHash(jev[2], jev[3]))
EntriesAfter ==
    GetVecOrEmpty(IndexOf(jo, jev[2]), JoinKeyHash(jev[2], jev[3]))

\* the last call updated index and store of the arriving side: an Insert
\* appended the record's entry and the record, a Delete took an entry and a
\* copy of the record away where there was one
ArrivingSideUpdated ==
    IF jev[1] = "Insert"
    THEN /\ EntriesAfter = Append(EntriesBefore, Lookup(Hash64(jev[3])))
         /\ CopiesAfter = Append(CopiesBefore, jev[3])
    ELSE /\ \/ Occurrences(EntriesBefore, Lookup(Hash64(jev[3]))) = 0
            \/ Occurrences(EntriesAfter, Lookup(Hash64(jev[3])))
                  < Occurrences(EntriesBefore, Lookup(Hash64(jev[3])))
         /\ CopiesBefore = <<>> \/ Len(CopiesAfter) < Len(CopiesBefore)

\* C23: outer join, arrival on the non-preserved side without a match.  In
\* a RightOuter join a left arrival (Insert or Delete) whose join key matches
\* no live right record emits no tuple at all, and the left index and the
\* left store are updated all the same; LeftOuter with right arrivals is the
\* mirror.
C23_NonPreservedNoMatch ==
    (NonPreservedCall /\ LiveMatches = {}) =>
        /\ jres = "ok"
        /\ emitted = <<>>
        /\ ArrivingSideUpdated

\* C23 (case reached): a record was deleted on the non-preserved side while
\* the other side held live records, none of them with its join key.
C23_Witness ==
    /\ NonPreservedCall /\ jev[1] = "Delete"
    /\ LiveMatches = {} /\ DOMAIN OtherLive # {}
    /\ emitted = <<>>
    /\ CopiesBefore # <<>> /\ CopiesAfter = <<>>

(***************************************************************************)
(* Join: routing by source port.                                           *)
(***************************************************************************)
\* what a call that led from operator j to the outcome r did: the left leaf
\* took the event and the right side was not touched
TreatedAsLeft(j, r, action, from_port, record) ==
    /\ r.j.left_source = JoinTable_execute(j.left_source, action, from_port, record).table
    /\ r.j.right_source = j.right_source
    /\ r.j.right_lookup_index_map = j.right_lookup_index_map
    /\ r.res.ok \/ r.res.err[1] # "InvalidSource"

\* the right leaf took the event and the left side was not touched
TreatedAsRight(j, r, action, from_port, record) ==
    /\ r.j.right_source = JoinTable_execute(j.right_source, action, from_port, record).table
    /\ r.j.left_source = j.left_source
    /\ r.j.left_lookup_index_map = j.left_lookup_index_map
    /\ r.res.ok \/ r.res.err[1] # "InvalidSource"

\* the event was refused: InvalidSource(from_port), nothing emitted, no index
\* and no leaf store changed
Refused(j, r, from_port) ==
    /\ r.res = Err(<<"InvalidSource", from_port>>)
    /\ r.j = j

\* an event is a left arrival if its port is among the left subtree's source
\* ports, a right arrival if it is not but is among the right subtree's, and
\* refused otherwise; the three cases exclude each other
Routed(j, r, action, from_port, record) ==
    IF from_port \in left_sources(j)
    THEN TreatedAsLeft(j, r, action, from_port, record)
    ELSE IF from_port \in right_sources(j)
    THEN TreatedAsRight(j, r, action, from_port, record)
    ELSE Refused(j, r, from_port)

\* the outcome of the last call
LastOutcome ==
    [j |-> jo, res |-> IF jres = "ok" THEN Ok(emitted) ELSE Err(<<jres, jev[2]>>)]

\* the operator before the last call with both leaves on the port of the
\* left one, so that the port is a source port of both subtrees
SharedPort == [joPrev EXCEPT !.right_source.port = joPrev.left_source.port]

\* C24: source-port routing.  execute treats an event as a left arrival iff
\* from_port is among the left subtree's source ports, as a right arrival iff
\* it is not in the left subtree but is in the right subtree, and otherwise
\* returns InvalidSource(from_port) without emitting a tuple and without
\* changing a lookup index or a leaf record store.  The last call is routed
\* so, and so is the same event sent to the operator whose subtrees share
\* the port.
C24_SourcePortRouting ==
    jev # NoEvent =>
        /\ jres = "InvalidSource" => emitted = <<>>
        /\ Routed(joPrev, LastOutcome, jev[1], jev[2], jev[3])
        /\ Routed(SharedPort,
                  JoinOperator_execute(SharedPort, jev[1], jev[2], jev[3]),
                  jev[1], jev[2], jev[3])

\* C24 (case reached): an event on a port of neither subtree was refused by
\* an operator that held records on both sides.
C24_Witness ==
    /\ jev # NoEvent /\ jev[2] = OtherPort
    /\ jres = "InvalidSource"
    /\ jo.left_lookup_index_map # EmptyMap /\ jo.right_lookup_index_map # EmptyMap
    /\ jo = joPrev

(***************************************************************************)
(* Join: lookup.                                                           *)
(***************************************************************************)
\* the records the upstream of a port may send
RecordsOn(port) == IF port = LeftPort THEN LeftRecords ELSE RightRecords

\* the upstream of the port holds no record whose content hash is h: none
\* was ever inserted, or all were deleted
NoneLive(live, port, h) ==
    \A r \in RecordsOn(port) : Hash64(r) = h => BagCount(live, r) = 0

\* what a leaf lookup has to return for a key, given the leaf's store and
\* the records its upstream holds
LeafLookupAnswers(store, live, port, key, res) ==
    IF key[1] # "Lookup"
    THEN ~res.ok /\ res.err[1] = "InvalidLookupKey"
    ELSE /\ GetVecOrEmpty(store, key[2]) # <<>> => res = Ok(store[key[2]])
         /\ GetVecOrEmpty(store, key[2]) = <<>> =>
               res = Err(<<"HistoryRecordNotFound", key[2], port>>)
         /\ NoneLive(live, port, key[2]) =>
               res = Err(<<"HistoryRecordNotFound", key[2], port>>)

\* C25: leaf lookup.  JoinTable.lookup(Lookup(h)) returns all records
\* currently stored under h and does not modify the store; if no record is
\* stored under h (never inserted, or already deleted) it returns
\* HistoryRecordNotFound(h, port); a Composite key returns InvalidLookupKey.
C25_LeafLookup ==
    [][(jlk' # NoEvent /\ jlk'[1] \in {LeftPort, RightPort}) =>
          /\ jo' = jo
          /\ LeafLookupAnswers(StoreOf(jo, jlk'[1]),
                               IF jlk'[1] = LeftPort THEN liveL ELSE liveR,
                               jlk'[1], jlk'[2], jlk'[3])]_vars

\* C25 (case reached): a leaf that holds two copies of a record returned
\* both.
C25_Witness ==
    /\ jlk # NoEvent /\ jlk[1] \in {LeftPort, RightPort}
    /\ jlk[3].ok /\ Len(jlk[3].val) = 2

\* C25 (case reached): a leaf was asked for a record that had been inserted
\* and deleted, and answered HistoryRecordNotFound.
C25_WitnessDeleted ==
    /\ jlk # NoEvent /\ jlk[1] \in {LeftPort, RightPort}
    /\ jev # NoEvent /\ jev[1] = "Delete" /\ jev[2] = jlk[1]
    /\ jlk[2] = Lookup(Hash64(jev[3]))
    /\ ~jlk[3].ok /\ jlk[3].err[1] = "HistoryRecordNotFound"

\* no record is live twice on its side
DistinctLive ==
    /\ \A r \in DOMAIN liveL : liveL[r] <= 1
    /\ \A r \in DOMAIN liveR : liveR[r] <= 1

\* the last lookup was made on the operator, with the key of an Insert tuple
\* the last execute call returned
LookupOfEmitted(n) ==
    /\ jlk # NoEvent /\ jlk[1] = "join"
    /\ n \in DOMAIN emitted
    /\ emitted[n][1] = "Insert"
    /\ emitted[n][3] = jlk[2]

\* C26: composite keys address the rows they were emitted with.  For every
\* tuple (Insert, row, key) returned by execute on a join over leaves with
\* pairwise distinct live records, lookup(key) on the same operator before
\* any further event returns exactly that one row; a None side of the key
\* contributes one all-null record of that side's schema.
C26_KeysAddressRows ==
    DistinctLive =>
        \A n \in DOMAIN emitted :
            LookupOfEmitted(n) =>
                /\ jlk[3].ok
                /\ Len(jlk[3].val) = 1
                /\ jlk[3].val[1][1] = emitted[n][2]

(***************************************************************************)
(* Join: the output stream as a whole.                                     *)
(***************************************************************************)
\* each record of the bag is held once and no two of them share a join key
UniqueKeys(live, port) ==
    \A x \in DOMAIN live :
        /\ live[x] = 1
        /\ \A y \in DOMAIN live : JoinKeyHash(port, x) = JoinKeyHash(port, y) => x = y

\* at every point so far each side held at most one live record per join key
UniqueKeysEver ==
    \A i \in 1..Len(JoinCalls) :
        /\ UniqueKeys(JoinCalls[i].liveL, LeftPort)
        /\ UniqueKeys(JoinCalls[i].liveR, RightPort)

\* C27: join equivalence under unique join keys.  If at every point of a
\* valid Insert/Delete sequence each side holds at most one live record per
\* join-key value, then after every execute call the emitted tuples,
\* materialised, equal the SQL join of the operator's type of the live left
\* and right records.
C27_UniqueKeyEquivalence ==
    UniqueKeysEver =>
        /\ \A i \in 1..Len(JoinCalls) :
              JoinCalls[i].ev[2] # OtherPort => JoinCalls[i].res = "ok"
        /\ out = SqlJoin(jo.operator, liveL, liveR)

\* C27 (case reached): under unique join keys, an outer join saw a record
\* deleted after inserts on both sides, and its output is not empty.
C27_Witness ==
    /\ UniqueKeysEver /\ AllJoinCallsOk
    /\ jo.operator # "Inner"
    /\ Len(JoinCalls) = MaxSteps
    /\ jev[1] = "Delete"
    /\ \E i \in 1..Len(JoinCalls) : \E k \in 1..Len(JoinCalls) :
          /\ JoinCalls[i].ev[2] = LeftPort /\ JoinCalls[k].ev[2] = RightPort
          /\ \E n \in DOMAIN JoinCalls[k].emitted : IsPadded(JoinCalls[k].emitted[n])
    /\ DOMAIN out # {}

\* what downstream had materialised before the last execute call
OutBefore == IF jtrace = <<>> THEN EmptyBag ELSE jtrace[Len(jtrace)].out

\* the n-th tuple of the last call, if a Delete, retracts a row that the
\* tuples before it left in the materialised output
RetractsPresentRow(n) ==
    emitted[n][1] = "Delete" =>
        BagCount(Materialize(OutBefore, SubSeq(emitted, 1, n - 1)), emitted[n][2]) >= 1

\* C28: the join output stream is well formed.  For any valid input
\* sequence, every emitted (Delete, row) retracts a row present in the
\* materialised output at that moment, so that no row's multiplicity ever
\* becomes negative, even when several live records share a join key.
C28_JoinOutputWellFormed ==
    \A n \in DOMAIN emitted : RetractsPresentRow(n)

(***************************************************************************)
(* Aggregation: the output stream as a whole.                              *)
(***************************************************************************)
\* the operation that takes back what an operation did
Inverse(o) ==
    CASE o[1] = "Insert" -> OpDelete(o[2])
      [] o[1] = "Delete" -> OpInsert(o[2])
      [] o[1] = "Update" -> OpUpdate(o[3], o[2])

\* what downstream had materialised before the last process call
AggOutBefore ==
    MaterializeOps(aggOut, [n \in DOMAIN aggEmitted |-> Inverse(aggEmitted[n])])

\* what downstream has materialised when the n-th operation of the last call
\* reaches it
AggOutAt(n) == MaterializeOps(AggOutBefore, SubSeq(aggEmitted, 1, n - 1))

\* the group of an output row: its dimension columns
GroupOf(row) == SubSeq(row, 1, Len(agg.dimensions))

\* the rows of a group in a materialised output, each as often as it is held
RowsOfGroup(bag, g) == [r \in {x \in DOMAIN bag : GroupOf(x) = g} |-> bag[r]]

\* the n-th operation of the last call is well formed: an old row is the one
\* row materialised for its group, which is the new row emitted last for the
\* group, and an Insert comes for a group with no row materialised
OperationWellFormed(n) ==
    IF aggEmitted[n][1] = "Insert"
    THEN RowsOfGroup(AggOutAt(n), GroupOf(aggEmitted[n][2])) = EmptyBag
    ELSE RowsOfGroup(AggOutAt(n), GroupOf(aggEmitted[n][2]))
             = BagAdd(EmptyBag, aggEmitted[n][2], 1)

\* C29: the aggregation output stream is well formed.  For any valid input
\* stream, with projections over dimension and measure columns only, every
\* Update.old and Delete.old emitted equals the most recent Insert.new or
\* Update.new emitted for the same group, and an Insert is emitted for a group
\* only when no row of that group is materialised downstream.
C29_AggOutputWellFormed ==
    aggValid => \A n \in DOMAIN aggEmitted : OperationWellFormed(n)

\* C30: failed aggregation events are atomic.  If aggregate() returned an
\* error for the last event (a measure, dimension or projection expression
\* failed to evaluate, the second half of a key-changing Update included),
\* the group table is exactly as before the event -- no group with count 0
\* created, no count, values or aggregator state changed -- and no event was
\* sent for that input.
C30_FailedEventsAtomic ==
    (aggEv # NoEvent /\ aggRet = "err") =>
        /\ agg.states = aggPrev
        /\ aggSent = <<>>

\* the part of C30 about the events sent
C30_NothingSentOnError ==
    (aggEv # NoEvent /\ aggRet = "err") => aggSent = <<>>

(***************************************************************************)
(* Join: placeholder rows, history errors, match counts.                   *)
(***************************************************************************)
\* the row is a placeholder of the operator's type: the preserved side's
\* record padded with nulls
IsPlaceholderRow(operator, row) ==
    \/ operator = "LeftOuter" /\ RightPart(row) = from_schema(RightCols)
    \/ operator = "RightOuter" /\ LeftPart(row) = from_schema(LeftCols)

\* the key a preserved-side arrival attaches to the placeholder row it
\* creates: the lookup key of the preserved record and no key for the other
\* side
CreationKey(operator, row) ==
    IF operator = "LeftOuter"
    THEN Composite(Some(Lookup(Hash64(LeftPart(row)))), None)
    ELSE Composite(None, Some(Lookup(Hash64(RightPart(row)))))

\* C31: placeholder lookup keys are consistent.  Whenever an outer join
\* emits a compensating Delete or Insert of a placeholder row (L ++ nulls in
\* LeftOuter, nulls ++ R in RightOuter), the composite key attached to it is
\* the key of the tuple that created that placeholder row on a
\* preserved-side arrival: Composite{Some(lk), None} for LeftOuter and
\* Composite{None, Some(rk)} for RightOuter.
C31_PlaceholderKeysConsistent ==
    (LeafCall /\ jres = "ok") =>
        \A n \in DOMAIN emitted :
            IsPlaceholderRow(jo.operator, emitted[n][2]) =>
                emitted[n][3] = CreationKey(jo.operator, emitted[n][2])

\* the part of C31 about the LeftOuter join
C31_LeftOuterKeysConsistent ==
    jo.operator = "LeftOuter" => C31_PlaceholderKeysConsistent

\* the keys attached on preserved-side arrivals, where placeholders are created
C31_CreationKeys ==
    PreservedCall => C31_PlaceholderKeysConsistent

\* every lookup key of the bucket the last call iterated over resolves to
\* at least one record in the other side's leaf
BucketResolves ==
    \A i \in DOMAIN IteratedBucket :
        /\ JoinTable_lookup(IF jev[2] = LeftPort THEN jo.right_source
                            ELSE jo.left_source, IteratedBucket[i]).ok
        /\ GetVecOrEmpty(StoreOf(jo, IF jev[2] = LeftPort THEN RightPort ELSE LeftPort),
                         IteratedBucket[i][2]) # <<>>

\* C32: no spurious history errors.  For a two-leaf join of any type and
\* any valid input sequence (every Delete preceded by its Insert, duplicates
\* and shared join keys allowed), no execute call returns
\* HistoryRecordNotFound: every lookup key read from a lookup index during
\* expansion resolves to at least one stored record.
C32_NoSpuriousHistoryErrors ==
    /\ jres # "HistoryRecordNotFound"
    /\ \A i \in 1..Len(JoinCalls) : JoinCalls[i].res # "HistoryRecordNotFound"
    /\ LeafCall => BucketResolves

\* C32 (case reached): after a Delete on the other side, whose upstream held
\* two records of one join key, an arrival iterated over a bucket that still
\* had an entry, and the call returned Ok.
C32_Witness ==
    /\ LeafCall /\ jres = "ok"
    /\ IteratedBucket # <<>>
    /\ \E i \in 1..Len(jtrace) :
          /\ jtrace[i].ev[1] = "Delete" /\ jtrace[i].ev[2] # jev[2]
          /\ i > 1
          /\ SumOver(IF jev[2] = LeftPort THEN jtrace[i - 1].liveR ELSE jtrace[i - 1].liveL,
                     DOMAIN (IF jev[2] = LeftPort THEN jtrace[i - 1].liveR
                             ELSE jtrace[i - 1].liveL)) >= 2

\* the records of the other side the last call paired the arriving record
\* with: those its leaf holds under the lookup keys of the iterated bucket
PairedRecords ==
    {rec \in RecordsOn(IF jev[2] = LeftPort THEN RightPort ELSE LeftPort) :
        \E i \in DOMAIN IteratedBucket : IteratedBucket[i] = Lookup(Hash64(rec))}

\* the size of the arriving side's index bucket at the join key of a record
\* of the other side: what `records_count` starts from
RecordsCount(rec) ==
    Len(GetVecOrEmpty(IndexOf(jo, jev[2]),
                      JoinKeyHash(IF jev[2] = LeftPort THEN RightPort ELSE LeftPort, rec)))

\* C33: the match-count subtraction never underflows.  In
\* get_left_matching_count and get_right_matching_count the unsigned
\* `records_count -= 1` executed for an Insert is only reached with an index
\* bucket of size at least 1, for every valid input sequence to a two-leaf
\* outer join, so the count never wraps or panics.
C33_NoMatchCountUnderflow ==
    /\ \A i \in 1..Len(JoinCalls) : JoinCalls[i].res # "UsizeUnderflow"
    /\ (ReverseCall /\ jev[1] = "Insert") =>
          \A rec \in PairedRecords : RecordsCount(rec) >= 1

\* C33 (case reached): an Insert on the non-preserved side of an outer join
\* found a record to pair with, and the bucket the count was taken from held
\* the arriving record's entry only.
C33_Witness ==
    /\ ReverseCall /\ jev[1] = "Insert" /\ jres = "ok"
    /\ \E rec \in PairedRecords : RecordsCount(rec) = 1
    /\ \E n \in DOMAIN emitted : IsPadded(emitted[n])

(***************************************************************************)
(* Specifications.                                                         *)
(***************************************************************************)
\* the join operator, of any of the three types
Init ==
    /\ \E operator \in JoinOperatorType : JoinStart(operator)
    /\ AggStart(CHOOSE p \in AggProcessors : TRUE)
    /\ ProjStart
    /\ steps = 0
Next == JoinNext
Spec == Init /\ [][Next]_vars

\* the aggregation processor, for either query and either build
AggInit ==
    /\ JoinStart("Inner")
    /\ \E p \in AggProcessors : AggStart(p)
    /\ ProjStart
    /\ steps = 0
AggSpec == AggInit /\ [][AggNext]_vars

\* the projection processor
ProjInit ==
    /\ JoinStart("Inner")
    /\ AggStart(CHOOSE p \in AggProcessors : TRUE)
    /\ ProjStart
    /\ steps = 0
ProjSpec == ProjInit /\ [][ProjNext]_vars

\* any one of the three components, exercised alone while the other two rest
\* as constructed: the behaviours of Spec, of AggSpec and of ProjSpec together
JoinIdle == JoinStart("Inner")
AggIdle  == AggStart(CHOOSE p \in AggProcessors : TRUE)
ProjIdle == ProjStart
AnyInit == Init \/ AggInit \/ ProjInit
AnyNext ==
    \/ (AggIdle /\ ProjIdle /\ JoinNext)
    \/ (JoinIdle /\ ProjIdle /\ AggNext)
    \/ (JoinIdle /\ AggIdle /\ ProjNext)
AnySpec == AnyInit /\ [][AnyNext]_vars

=============================================================================
